---- MODULE Spec2Model ----
(***************************************************************************)
(* Red flag detection engine of the PWD works analyzer:                    *)
(*   src/pwd_red_flag_analyzer_complete/red_flag_analyzer.py   (analyzer)  *)
(*   src/pipeline.py                                 (RedFlagPipeline.run) *)
(*                                                                         *)
(* Encoding of the data.                                                   *)
(*  - A spreadsheet cell is a record with a kind k: "num" (a number),      *)
(*    "numstr" (text that float() parses), "null" (None / NaN / NaT),      *)
(*    "empty" (the empty string), "text" (text float() rejects).           *)
(*  - Money is held in hundredths of a lakh (Lakh(n) is n lakh), so that   *)
(*    10.01 % of 100 lakh is a whole number.  The comparisons of the code  *)
(*    are evaluated in exact arithmetic; binary floating point rounding    *)
(*    is not represented.                                                  *)
(*  - Time is held in half days (Days(n) is n days); a Timestamp is a      *)
(*    number of half days, so a moment can fall inside a day.  The model's *)
(*    calendar has Days(4) to the year.                                    *)
(*  - A work name is a sequence of tokens; a token is a word (cls "W") or  *)
(*    a route reference: a class as written and its digit string.          *)
(***************************************************************************)
EXTENDS Integers, Sequences, FiniteSets, TLC

VARIABLES
    df,             \* the DataFrame: a sequence of rows, each with its index label idx
    columns,        \* df.columns: the columns the DataFrame has
    clock,          \* the time of day: what datetime.now() returns when called
    current_date,   \* RedFlagAnalyzer.current_date, taken once in __init__
    results_set,    \* RedFlagPipeline.results is not None
    pc,             \* the position of the run
    total_records,  \* results['total_records']
    red_flagged,    \* results['red_flagged']
    green_flagged,  \* results['green_flagged']
    flag_summary,   \* results['flag_summary']
    batch_flags,    \* the list analyze_batch_flags returned
    i,              \* analyze_all_flags: position of the next row of df.iterrows()
    bi,             \* merge: position of batch_flag in batch_flags
    ai,             \* merge: position of affected in affected_records
    output_formats, \* run: the output_formats it was called with
    returned,       \* run: the dictionary it returned
    second,         \* the web application: the wall clock, in seconds
    files,          \* the web application: the files on disk, path and content
    req             \* the web application: the state of each upload request

\* The call of run and what it returned
call == <<output_formats, returned>>

\* The state of the web application
web == <<second, files, req>>

\* The state of one pipeline and its run
pipeline == <<df, columns, clock, current_date, results_set, pc, total_records,
              red_flagged, green_flagged, flag_summary, batch_flags, i, bi, ai>>

vars == <<df, columns, clock, current_date, results_set, pc, total_records,
          red_flagged, green_flagged, flag_summary, batch_flags, i, bi, ai,
          output_formats, returned, second, files, req>>

----------------------------------------------------------------------------
(* Bounds of the model *)

\* The largest number of rows of a DataFrame of the pipeline specification.
MaxRows == 3

\* The largest number of rows of a DataFrame handed to one batch detector.
MaxBatchRows == 3

\* The longest list of batch flags that is merged in every order.
MaxPermuted == 4

\* The number of half days the clock advances after an analyzer is constructed.
MaxTicks == 3

\* The largest chainage of the intervals the overlap test is tried on.
MaxChainage == 3

\* The seconds of wall clock time the upload requests arrive and run in: 0..MaxSeconds.
MaxSeconds == 1

----------------------------------------------------------------------------
(* Units and cells *)

Lakh(n) == n * 100

Days(n) == n * 2

YearOf(ts) == ts \div Days(4)

Num(n) == [k |-> "num", v |-> n]

NumStr(n) == [k |-> "numstr", v |-> n]

Null == [k |-> "null", v |-> 0]

Empty == [k |-> "empty", v |-> 0]

Text == [k |-> "text", v |-> 0]

DateCell(ts) == [k |-> "date", v |-> ts]

Cat(s) == [k |-> "str", s |-> s]

NoCat == [k |-> "null", s |-> ""]

Word == [cls |-> "W", num |-> ""]

Route(c, d) == [cls |-> c, num |-> d]

Name(toks) == [k |-> "str", toks |-> toks]

NoName == [k |-> "null", toks |-> <<>>]

\* pd.isna(value)
IsNa(value) == value.k = "null"

\* _safe_float: NaN, '' and text that float() rejects give 0.0
_safe_float(value) ==
    IF IsNa(value) \/ value.k = "empty" THEN 0
    ELSE IF value.k \in {"num", "numstr"} THEN value.v
    ELSE 0

\* int(x) of a float: truncation towards zero.  The cell of a day count is
\* held in half days, so int(float(value)) is the number of whole days.
TruncDays(v) == IF v >= 0 THEN v \div Days(1) ELSE -((-v) \div Days(1))

\* _safe_int that reads a missing or unreadable value as 1.
_safe_int_MissingAsOne(value) ==
    IF IsNa(value) \/ value.k = "empty" THEN 1
    ELSE IF value.k \in {"num", "numstr"} THEN TruncDays(value.v)
    ELSE 1

\* _safe_int on the cell of a day count
_safe_int(value) ==
    IF IsNa(value) \/ value.k = "empty" THEN 0
    ELSE IF value.k \in {"num", "numstr"} THEN TruncDays(value.v)
    ELSE 0

\* _parse_date: None for a missing value, else pd.to_datetime(errors='coerce'),
\* which is NaT for text that is no date.
NoDate == [k |-> "none", v |-> 0]

NaT == [k |-> "nat", v |-> 0]

_parse_date(date_value) ==
    IF IsNa(date_value) THEN NoDate
    ELSE IF date_value.k = "date" THEN [k |-> "ts", v |-> date_value.v]
    ELSE NaT

----------------------------------------------------------------------------
(* Single-record rules *)

\* The limit of the excess expenditure rule, in percent.
ExcessLimit == 10

\* The progress, in percent, from which a work counts as complete.
FullProgress == 100

\* round(x, 2) of the percentage num/den * 100, in hundredths of a percent
\* (round half to even), for num >= 0 and den > 0.
RoundPct(num, den) ==
    LET n == num * 10000
        q == n \div den
        r == n % den
    IN  IF 2 * r < den THEN q
        ELSE IF 2 * r > den THEN q + 1
        ELSE IF q % 2 = 0 THEN q ELSE q + 1

SingleKeys == {"flag_id", "flag_name", "severity", "description", "details"}

\* _check_survey_wastage: a placeholder that returns None
_check_survey_wastage(row) == <<>>

\* _check_excess_expenditure that flags from the limit on (>= 10).
_check_excess_expenditure_AtLimit(row) ==
    LET aa_cost == _safe_float(row.aa)
        total_exp == _safe_float(row.exp)
    IN  IF aa_cost > 0 /\ (total_exp - aa_cost) * 100 >= ExcessLimit * aa_cost
        THEN << [flag_id |-> 3,
                 flag_name |-> "Excess Expenditure Without Approval",
                 severity |-> "HIGH",
                 keys |-> SingleKeys,
                 details |-> [aa_cost_lakh |-> aa_cost,
                              total_expenditure_lakh |-> total_exp,
                              excess_amount_lakh |-> total_exp - aa_cost,
                              excess_percentage |->
                                  RoundPct(total_exp - aa_cost, aa_cost)]] >>
        ELSE <<>>

\* _check_excess_expenditure: <<>> is None.  excess_percentage > 10 is
\* evaluated as (total_exp - aa_cost) * 100 > 10 * aa_cost, aa_cost being > 0.
_check_excess_expenditure(row) ==
    LET aa_cost == _safe_float(row.aa)
        total_exp == _safe_float(row.exp)
    IN  IF aa_cost > 0 /\ (total_exp - aa_cost) * 100 > ExcessLimit * aa_cost
        THEN << [flag_id |-> 3,
                 flag_name |-> "Excess Expenditure Without Approval",
                 severity |-> "HIGH",
                 keys |-> SingleKeys,
                 details |-> [aa_cost_lakh |-> aa_cost,
                              total_expenditure_lakh |-> total_exp,
                              excess_amount_lakh |-> total_exp - aa_cost,
                              excess_percentage |->
                                  RoundPct(total_exp - aa_cost, aa_cost)]] >>
        ELSE <<>>

\* strftime('%Y-%m-%d'): the day of a timestamp
DayOf(ts) == ts \div Days(1)

\* DelayFlag that compares and subtracts calendar days, not moments.
DelayFlag_ByDay(row, now) ==
    LET work_order_date == _parse_date(row.date)
        time_limit_days == _safe_int(row.tl)
        physical_progress == _safe_float(row.prog)
        expected_completion == work_order_date.v + Days(time_limit_days)
    IN  IF /\ work_order_date.k = "ts"
           /\ time_limit_days > 0
           /\ DayOf(now) > DayOf(expected_completion)
           /\ physical_progress < FullProgress
        THEN << [flag_id |-> 5,
                 flag_name |-> "Delay in Completion of Work",
                 severity |-> "MEDIUM",
                 keys |-> SingleKeys,
                 details |-> [work_order_date |-> DayOf(work_order_date.v),
                              time_limit_days |-> time_limit_days,
                              expected_completion |-> DayOf(expected_completion),
                              current_date |-> DayOf(now),
                              delay_days |-> DayOf(now) - DayOf(expected_completion),
                              physical_progress_percent |-> physical_progress]] >>
        ELSE <<>>

\* _check_delay_in_completion, evaluated against the date `now`.
\* A NaT work order date is not None, NaT + Timedelta is NaT, and
\* current_date > NaT is False.
DelayFlag(row, now) ==
    LET work_order_date == _parse_date(row.date)
        time_limit_days == _safe_int(row.tl)
        physical_progress == _safe_float(row.prog)
        expected_completion == work_order_date.v + Days(time_limit_days)
    IN  IF /\ work_order_date.k = "ts"
           /\ time_limit_days > 0
           /\ now > expected_completion
           /\ physical_progress < FullProgress
        THEN << [flag_id |-> 5,
                 flag_name |-> "Delay in Completion of Work",
                 severity |-> "MEDIUM",
                 keys |-> SingleKeys,
                 details |-> [work_order_date |-> DayOf(work_order_date.v),
                              time_limit_days |-> time_limit_days,
                              expected_completion |-> DayOf(expected_completion),
                              current_date |-> DayOf(now),
                              delay_days |-> (now - expected_completion) \div Days(1),
                              physical_progress_percent |-> physical_progress]] >>
        ELSE <<>>

\* _check_delay_in_completion that calls datetime.now() for each record.
_check_delay_in_completion_Resampled(row) == DelayFlag(row, clock)

_check_delay_in_completion(row) == DelayFlag(row, current_date)

\* The rule numbers for which RedFlagAnalyzer defines a check of one record:
\* _check_survey_wastage (2), _check_excess_expenditure (3) and
\* _check_delay_in_completion (5).  Rule 1, diversion of funds, is a comment
\* in _analyze_single_record and no method.
NamedChecks == {2, 3, 5}

\* _analyze_single_record that runs the delay check before the excess check.
_analyze_single_record_DelayFirst(row) ==
    _check_survey_wastage(row) \o _check_delay_in_completion(row)
        \o _check_excess_expenditure(row)

\* _analyze_single_record: the flags of one row, in the order of the checks
_analyze_single_record(row) ==
    _check_survey_wastage(row) \o _check_excess_expenditure(row)
        \o _check_delay_in_completion(row)

----------------------------------------------------------------------------
(* Summary *)

Severities == {"HIGH", "MEDIUM", "LOW"}

RECURSIVE AllFlags(_)
\* The flags of the records of red_flagged, in the order the loops of
\* _calculate_summary visit them.
AllFlags(red) ==
    IF red = <<>> THEN <<>> ELSE Head(red).flags \o AllFlags(Tail(red))

RECURSIVE CountWhere(_, _, _)
\* How many flags of the sequence have the value val in field fld(f).
CountWhere(flags, fld, val) ==
    IF flags = <<>> THEN 0
    ELSE (IF Head(flags)[fld] = val THEN 1 ELSE 0) + CountWhere(Tail(flags), fld, val)

\* _calculate_summary that makes the keys of by_severity as it meets them,
\* as it does those of by_flag_type.
_calculate_summary_AsMet(red) ==
    LET flags == AllFlags(red)
        names == {flags[n].flag_name : n \in 1..Len(flags)}
        met == {flags[n].severity : n \in 1..Len(flags)}
    IN  [total_red_flags |-> Len(red),
         by_flag_type |-> [nm \in names |-> CountWhere(flags, "flag_name", nm)],
         by_severity |-> [sv \in met |-> CountWhere(flags, "severity", sv)]]

\* _calculate_summary
_calculate_summary(red) ==
    LET flags == AllFlags(red)
        names == {flags[n].flag_name : n \in 1..Len(flags)}
    IN  [total_red_flags |-> Len(red),
         by_flag_type |-> [nm \in names |-> CountWhere(flags, "flag_name", nm)],
         by_severity |-> [sv \in Severities |-> CountWhere(flags, "severity", sv)]]

\* results['flag_summary'] = {} as analyze_all_flags first sets it
NoSummary == [total_red_flags |-> 0,
              by_flag_type |-> [nm \in {} |-> 0],
              by_severity |-> [sv \in {} |-> 0]]

----------------------------------------------------------------------------
(* Sequence helpers *)

RECURSIVE Concat(_)
\* The concatenation of a sequence of sequences (list.extend in a loop).
Concat(ss) == IF ss = <<>> THEN <<>> ELSE Head(ss) \o Concat(Tail(ss))

RECURSIVE Unique(_)
\* Series.unique(): the values in the order of their first appearance.
Unique(s) ==
    IF s = <<>> THEN <<>>
    ELSE LET init == Unique(SubSeq(s, 1, Len(s) - 1))
             last == s[Len(s)]
         IN  IF \E n \in 1..Len(init) : init[n] = last THEN init
             ELSE Append(init, last)

RECURSIVE SumCost(_)
SumCost(works) ==
    IF works = <<>> THEN 0 ELSE Head(works).contract_cost + SumCost(Tail(works))

----------------------------------------------------------------------------
(* Road key *)

\* str.upper() / re.IGNORECASE on the class of a route reference
Upper(c) ==
    CASE c = "sh" -> "SH"
      [] c = "mdr" -> "MDR"
      [] c = "nh" -> "NH"
      [] OTHER -> c

\* The road types of the six patterns of _extract_road_number, in order:
\* each pattern is the type, an optional hyphen, optional blanks and digits.
Patterns == <<"SH", "MDR", "NH", "SH", "MDR", "NH">>

\* str(row.get('Name of the work', '')).upper(): a missing name is the text
\* "NAN", a single word.
UpperName(row) ==
    IF IsNa(row.name) THEN <<Word>>
    ELSE [n \in 1..Len(row.name.toks) |->
             [cls |-> Upper(row.name.toks[n].cls), num |-> row.name.toks[n].num]]

\* None of _extract_road_number
NoKey == ""

\* _extract_road_number: the first pattern that matches somewhere in the name
\* decides; re.search gives its leftmost match.
_extract_road_number(work_name) ==
    LET Hits(p) == {n \in 1..Len(work_name) : Upper(work_name[n].cls) = Patterns[p]}
        matching == {p \in 1..Len(Patterns) : Hits(p) # {}}
    IN  IF matching = {} THEN NoKey
        ELSE LET p == CHOOSE q \in matching : \A r \in matching : q <= r
                 n == CHOOSE m \in Hits(p) : \A o \in Hits(p) : m <= o
             IN  Patterns[p] \o work_name[n].num

----------------------------------------------------------------------------
(* Batch detector: overlapping works *)

\* _chainages_overlap on open intervals: touching at an endpoint is no overlap.
_chainages_overlap_Open(from1, to1, from2, to2) == ~(to1 <= from2 \/ to2 <= from1)

\* _chainages_overlap
_chainages_overlap(from1, to1, from2, to2) == ~(to1 < from2 \/ to2 < from1)

\* The non-null values of df['Road Category'], each once, in order of appearance
Categories(frame) ==
    Unique([n \in 1..Len(SelectSeq(frame, LAMBDA r : ~IsNa(r.cat))) |->
               SelectSeq(frame, LAMBDA r : ~IsNa(r.cat))[n].cat])

\* df[df['Road Category'] == road_cat]
OfCategory(frame, road_cat) == SelectSeq(frame, LAMBDA r : r.cat = road_cat)

OverlapKeys == {"flag_id", "flag_name", "severity", "description", "affected_records"}

\* OverlapOfPair that skips only the comparison of a row with itself.
OverlapOfPair_BothOrders(row1, row2) ==
    LET from1 == _safe_float(row1.from)
        to1 == _safe_float(row1.to)
        from2 == _safe_float(row2.from)
        to2 == _safe_float(row2.to)
        road_num1 == _extract_road_number(UpperName(row1))
        road_num2 == _extract_road_number(UpperName(row2))
    IN  IF from1 = 0 /\ to1 = 0 THEN <<>>
        ELSE IF row1.idx = row2.idx THEN <<>>
        ELSE IF from2 = 0 /\ to2 = 0 THEN <<>>
        ELSE IF ~_chainages_overlap(from1, to1, from2, to2) THEN <<>>
        ELSE IF road_num1 # NoKey /\ road_num2 # NoKey /\ road_num1 = road_num2
        THEN << [flag_id |-> 4,
                 flag_name |-> "Overlapping of Work",
                 severity |-> "HIGH",
                 keys |-> OverlapKeys,
                 description |-> "Works overlap on " \o road_num1,
                 affected_records |->
                    << [record_index |-> row1.idx + 2,
                        budget_item_no |-> row1.bno,
                        chainage |-> <<from1, to1>>],
                       [record_index |-> row2.idx + 2,
                        budget_item_no |-> row2.bno,
                        chainage |-> <<from2, to2>>] >>] >>
        ELSE <<>>

\* OverlapOfPair that takes the road category for the road: no test of the keys.
OverlapOfPair_CategoryOnly(row1, row2) ==
    LET from1 == _safe_float(row1.from)
        to1 == _safe_float(row1.to)
        from2 == _safe_float(row2.from)
        to2 == _safe_float(row2.to)
        road_num1 == _extract_road_number(UpperName(row1))
    IN  IF from1 = 0 /\ to1 = 0 THEN <<>>
        ELSE IF row1.idx >= row2.idx THEN <<>>
        ELSE IF from2 = 0 /\ to2 = 0 THEN <<>>
        ELSE IF ~_chainages_overlap(from1, to1, from2, to2) THEN <<>>
        ELSE << [flag_id |-> 4,
                 flag_name |-> "Overlapping of Work",
                 severity |-> "HIGH",
                 keys |-> OverlapKeys,
                 description |-> "Works overlap on " \o road_num1,
                 affected_records |->
                    << [record_index |-> row1.idx + 2,
                        budget_item_no |-> row1.bno,
                        chainage |-> <<from1, to1>>],
                       [record_index |-> row2.idx + 2,
                        budget_item_no |-> row2.bno,
                        chainage |-> <<from2, to2>>] >>] >>

\* OverlapOfPair that tests the chainage of the first row of a pair only.
OverlapOfPair_FirstOnly(row1, row2) ==
    LET from1 == _safe_float(row1.from)
        to1 == _safe_float(row1.to)
        from2 == _safe_float(row2.from)
        to2 == _safe_float(row2.to)
        road_num1 == _extract_road_number(UpperName(row1))
        road_num2 == _extract_road_number(UpperName(row2))
    IN  IF from1 = 0 /\ to1 = 0 THEN <<>>
        ELSE IF row1.idx >= row2.idx THEN <<>>
        ELSE IF ~_chainages_overlap(from1, to1, from2, to2) THEN <<>>
        ELSE IF road_num1 # NoKey /\ road_num2 # NoKey /\ road_num1 = road_num2
        THEN << [flag_id |-> 4,
                 flag_name |-> "Overlapping of Work",
                 severity |-> "HIGH",
                 keys |-> OverlapKeys,
                 description |-> "Works overlap on " \o road_num1,
                 affected_records |->
                    << [record_index |-> row1.idx + 2,
                        budget_item_no |-> row1.bno,
                        chainage |-> <<from1, to1>>],
                       [record_index |-> row2.idx + 2,
                        budget_item_no |-> row2.bno,
                        chainage |-> <<from2, to2>>] >>] >>
        ELSE <<>>

\* The body of the inner loop of _check_overlapping_works for row1, row2:
\* the flag it appends, or nothing.
OverlapOfPair(row1, row2) ==
    LET from1 == _safe_float(row1.from)
        to1 == _safe_float(row1.to)
        from2 == _safe_float(row2.from)
        to2 == _safe_float(row2.to)
        road_num1 == _extract_road_number(UpperName(row1))
        road_num2 == _extract_road_number(UpperName(row2))
    IN  IF from1 = 0 /\ to1 = 0 THEN <<>>
        ELSE IF row1.idx >= row2.idx THEN <<>>
        ELSE IF from2 = 0 /\ to2 = 0 THEN <<>>
        ELSE IF ~_chainages_overlap(from1, to1, from2, to2) THEN <<>>
        ELSE IF road_num1 # NoKey /\ road_num2 # NoKey /\ road_num1 = road_num2
        THEN << [flag_id |-> 4,
                 flag_name |-> "Overlapping of Work",
                 severity |-> "HIGH",
                 keys |-> OverlapKeys,
                 description |-> "Works overlap on " \o road_num1,
                 affected_records |->
                    << [record_index |-> row1.idx + 2,
                        budget_item_no |-> row1.bno,
                        chainage |-> <<from1, to1>>],
                       [record_index |-> row2.idx + 2,
                        budget_item_no |-> row2.bno,
                        chainage |-> <<from2, to2>>] >>] >>
        ELSE <<>>

\* _check_overlapping_works
_check_overlapping_works(frame) ==
    LET cats == Categories(frame)
        OfCat(road_cat) ==
            LET road_works == OfCategory(frame, road_cat)
            IN  Concat([n1 \in 1..Len(road_works) |->
                    Concat([n2 \in 1..Len(road_works) |->
                        OverlapOfPair(road_works[n1], road_works[n2])])])
    IN  Concat([c \in 1..Len(cats) |-> OfCat(cats[c])])

----------------------------------------------------------------------------
(* Batch detector: splitting of works *)

\* The cost, in lakh, under which a contract counts as small.
SplitThreshold == 10

\* The largest gap between consecutive works that still counts as continuous.
GapLimit == 5

\* pd.to_datetime(df['Date of Work_Order'], errors='coerce').dt.year:
\* NaN where the cell is no date
YearCell(row) ==
    LET d == _parse_date(row.date)
    IN  IF d.k = "ts" THEN Num(YearOf(d.v)) ELSE Null

\* The non-null years of the frame, each once, in order of appearance
Years(frame) ==
    Unique([n \in 1..Len(SelectSeq(frame, LAMBDA r : ~IsNa(YearCell(r)))) |->
               YearCell(SelectSeq(frame, LAMBDA r : ~IsNa(YearCell(r)))[n]).v])

\* OfYear that takes every row with a year, whatever the year.
OfYear_AnyYear(frame, year) == SelectSeq(frame, LAMBDA r : ~IsNa(YearCell(r)))

\* df_copy[df_copy['year'] == year]
OfYear(frame, year) ==
    SelectSeq(frame, LAMBDA r : ~IsNa(YearCell(r)) /\ YearCell(r).v = year)

\* The entry of road_groups[road_num] made for a row
Work(row) ==
    [index |-> row.idx,
     row |-> row,
     contract_cost |-> _safe_float(row.cost),
     from |-> _safe_float(row.from),
     to |-> _safe_float(row.to)]

\* Qualifies that admits a cost of exactly the threshold (<= 10).
Qualifies_AtThreshold(row) ==
    LET road_num == _extract_road_number(UpperName(row))
        contract_cost == _safe_float(row.cost)
    IN  road_num # NoKey /\ contract_cost > 0 /\ contract_cost <= Lakh(SplitThreshold)

\* Whether the loop over road_works puts the row in a group
Qualifies(row) ==
    LET road_num == _extract_road_number(UpperName(row))
        contract_cost == _safe_float(row.cost)
    IN  road_num # NoKey /\ contract_cost > 0 /\ contract_cost < Lakh(SplitThreshold)

\* The keys of road_groups, in insertion order
GroupKeys(road_works) ==
    Unique([n \in 1..Len(SelectSeq(road_works, Qualifies)) |->
               _extract_road_number(UpperName(SelectSeq(road_works, Qualifies)[n]))])

\* road_groups[road_num]: the works of the key, in the order of the rows
GroupOf(road_works, road_num) ==
    LET members == SelectSeq(road_works,
                       LAMBDA r : Qualifies(r)
                                  /\ _extract_road_number(UpperName(r)) = road_num)
    IN  [n \in 1..Len(members) |-> Work(members[n])]

\* Insertion of w behind every work whose 'from' is not larger
InsertByFrom(sorted, w) ==
    LET before == SelectSeq(sorted, LAMBDA x : x.from <= w.from)
        after == SelectSeq(sorted, LAMBDA x : x.from > w.from)
    IN  before \o <<w>> \o after

RECURSIVE SortedByFrom(_)
\* sorted(works, key=lambda x: x['from']): ascending and stable
SortedByFrom(works) ==
    IF works = <<>> THEN <<>>
    ELSE InsertByFrom(SortedByFrom(SubSeq(works, 1, Len(works) - 1)), works[Len(works)])

\* Continuous that takes a gap of GapLimit for a break (>= 5).
Continuous_AtLimit(works_sorted) ==
    \A n \in 1..(Len(works_sorted) - 1) :
        ~(works_sorted[n + 1].from - works_sorted[n].to >= GapLimit)

\* The loop over adjacent works: no gap larger than GapLimit
Continuous(works_sorted) ==
    \A n \in 1..(Len(works_sorted) - 1) :
        ~(works_sorted[n + 1].from - works_sorted[n].to > GapLimit)

SplitKeys == {"flag_id", "flag_name", "severity", "description",
              "affected_records", "total_cost"}

\* SplitOfGroup that lists and sums the first three works of the group only.
SplitOfGroup_FirstThree(road_num, works, year) ==
    LET works_sorted == SortedByFrom(works)
        listed == SubSeq(works_sorted, 1, 3)
    IN  IF Len(works) >= 3 /\ Continuous(works_sorted)
        THEN << [flag_id |-> 6,
                 flag_name |-> "Splitting of Work",
                 severity |-> "HIGH",
                 keys |-> SplitKeys,
                 description |-> "Potential work splitting detected on " \o road_num,
                 year |-> year,
                 affected_records |->
                    [n \in 1..Len(listed) |->
                        [record_index |-> listed[n].index + 2,
                         budget_item_no |-> listed[n].row.bno,
                         contract_cost_lakh |-> listed[n].contract_cost,
                         chainage |-> <<listed[n].from, listed[n].to>>]],
                 total_cost |-> SumCost(listed)] >>
        ELSE <<>>

\* The flag of one group of road_groups, or nothing
SplitOfGroup(road_num, works, year) ==
    LET works_sorted == SortedByFrom(works)
    IN  IF Len(works) >= 3 /\ Continuous(works_sorted)
        THEN << [flag_id |-> 6,
                 flag_name |-> "Splitting of Work",
                 severity |-> "HIGH",
                 keys |-> SplitKeys,
                 description |-> "Potential work splitting detected on " \o road_num,
                 year |-> year,
                 affected_records |->
                    [n \in 1..Len(works_sorted) |->
                        [record_index |-> works_sorted[n].index + 2,
                         budget_item_no |-> works_sorted[n].row.bno,
                         contract_cost_lakh |-> works_sorted[n].contract_cost,
                         chainage |-> <<works_sorted[n].from, works_sorted[n].to>>]],
                 total_cost |-> SumCost(works_sorted)] >>
        ELSE <<>>

\* _check_splitting_of_works
_check_splitting_of_works(frame) ==
    LET years == Years(frame)
        OfCat(year_works, year, road_cat) ==
            LET road_works == OfCategory(year_works, road_cat)
                road_nums == GroupKeys(road_works)
            IN  Concat([g \in 1..Len(road_nums) |->
                    SplitOfGroup(road_nums[g], GroupOf(road_works, road_nums[g]), year)])
        InYear(year) ==
            LET year_works == OfYear(frame, year)
                cats == Categories(year_works)
            IN  Concat([c \in 1..Len(cats) |-> OfCat(year_works, year, cats[c])])
    IN  Concat([y \in 1..Len(years) |-> InYear(years[y])])

\* analyze_batch_flags
analyze_batch_flags(frame) ==
    _check_overlapping_works(frame) \o _check_splitting_of_works(frame)

----------------------------------------------------------------------------
(* The rows the pipeline is run on *)

\* A row without its position: the cells the engine reads.
RowOf(name, cat, from, to, cost, aa, exp, date, tl, prog) ==
    [name |-> name, cat |-> cat, from |-> from, to |-> to, cost |-> cost,
     aa |-> aa, exp |-> exp, date |-> date, tl |-> tl, prog |-> prog]

\* The row at label idx of a frame: 'Sr.' and 'Budget Item No.' follow the label.
At(cells, idx) ==
    [idx |-> idx, sr |-> idx + 1, bno |-> 2104 + idx,
     name |-> cells.name, cat |-> cells.cat, from |-> cells.from, to |-> cells.to,
     cost |-> cells.cost, aa |-> cells.aa, exp |-> cells.exp,
     date |-> cells.date, tl |-> cells.tl, prog |-> cells.prog]

SH56 == Name(<<Word, Route("SH", "56"), Word>>)

SH240 == Name(<<Word, Route("sh", "240")>>)

\* Small contracts along SH-56 in one year, works that break the pattern, a
\* row without a usable cell and an overdue work whose progress is no number
PipelineRows ==
    { RowOf(SH56, Cat("A"), Num(0), Num(5), Num(Lakh(8) + 50),
            Num(Lakh(100)), Num(Lakh(100)), DateCell(Days(8)), Num(Days(1)), Num(100)),
      RowOf(SH56, Cat("A"), Num(5), Num(10), Num(Lakh(7)),
            Num(Lakh(100)), Num(Lakh(110)), DateCell(Days(9)), Num(Days(90)), Num(40)),
      RowOf(SH56, Cat("A"), Num(10), Num(15), Num(Lakh(6)),
            Num(Lakh(100)), Num(Lakh(120)), DateCell(Days(10)), Null, Num(50)),
      RowOf(SH56, Cat("A"), Num(21), Num(30), Num(Lakh(9)),
            Null, Num(Lakh(50)), DateCell(Days(11)), Num(Days(2)), Num(100)),
      RowOf(SH240, Cat("A"), Num(0), Num(5), Num(Lakh(1100)),
            Num(Lakh(450)), Num(Lakh(500)), DateCell(Days(16)), Num(Days(3)), Num(75)),
      RowOf(NoName, NoCat, Null, Null, Text,
            Text, Empty, Null, Text, Null),
      RowOf(SH240, NoCat, Null, Null, Null,
            Num(Lakh(100)), Text, DateCell(Days(12)), Num(Days(3)), Text) }

\* A frame as ExcelReader returns it: reset_index gives the labels 0..n-1.
RangeFrame(cells) == [n \in 1..Len(cells) |-> At(cells[n], n - 1)]

\* All sequences over S of length 0..n
SeqsUpTo(S, n) == UNION {[1..m -> S] : m \in 0..n}

\* The moments at which an analyzer is constructed
CurrentDates == {Days(20), Days(20) + 1}

\* The columns of a sheet with all the expected headers
AllColumns ==
    {"sr", "bno", "name", "cat", "from", "to", "cost", "aa", "exp", "date", "tl", "prog"}

\* The columns _clean_data leaves of a sheet with the rows cells:
\* dropna(axis=1, how='all') drops every column without a value; 'Sr.' and
\* 'Budget Item No.' have a value in every row; a repeated header row, which
\* is removed after the columns are dropped, has a value in every column.
ColumnsOf(cells, repeated_header) ==
    IF repeated_header THEN AllColumns
    ELSE {c \in AllColumns \ {"sr", "bno"} : \E n \in 1..Len(cells) : ~IsNa(cells[n][c])}
            \cup (IF cells = <<>> THEN {} ELSE {"sr", "bno"})

\* The critical columns of _validate_columns
CriticalColumns == {"bno", "name", "aa", "exp"}

\* The columns the batch detectors read with df[...]: 'Road Category' and
\* 'Date of Work_Order'
BatchColumns == {"cat", "date"}

----------------------------------------------------------------------------
(* The call of run: the formats asked for and the dictionary returned *)

\* The formats generate_report knows
Supported == {"excel", "html", "json", "pdf"}

\* The default of the parameter output_formats of run
DefaultFormats == <<"excel", "pdf">>

\* The lists of formats run is called with: the default, and one with a
\* format generate_report does not know between two it knows
FormatLists == {DefaultFormats, <<"json", "csv", "html">>}

\* run has not returned
NotReturned == [success |-> FALSE, keys |-> {}, error |-> "", output_files |-> {}]

\* The dictionary run returns at the end of the try block; output_files has a
\* key for each format of the list
Success(formats) ==
    [success |-> TRUE,
     keys |-> {"success", "results", "output_files", "data_quality"},
     error |-> "",
     output_files |-> {formats[n] : n \in 1..Len(formats)}]

\* The dictionary run returns from the except branch, error being str(e)
Failure(error) ==
    [success |-> FALSE, keys |-> {"success", "error"}, error |-> error,
     output_files |-> {}]

\* The upload requests of the web application, each handled by its own call
\* of upload_file
Clients == {1, 2}

\* A file name: what stands before its last dot and what stands after it
FileName(stem, ext) == [stem |-> stem, ext |-> ext]

\* The names the browser sends with the uploaded file
FileNames ==
    {FileName("road works", "xlsx"), FileName("road_works", "xlsx"),
     FileName("works", "xls"), FileName("notes", "csv")}

\* werkzeug's secure_filename: white space becomes an underscore
secure_filename(filename) ==
    [filename EXCEPT !.stem = IF @ = "road works" THEN "road_works" ELSE @]

ALLOWED_EXTENSIONS == {"xlsx", "xls"}

\* allowed_file: the text after the last dot is xlsx or xls
allowed_file(filename) == filename.ext \in ALLOWED_EXTENSIONS

\* The name of an Excel report but for its time stamp
ReportName == FileName("Red_Flag_Analysis_Report", "xlsx")

\* A path: the folder, the %Y%m%d_%H%M%S stamp in the name, the rest of the name
Path(dir, stamp, name) == [dir |-> dir, stamp |-> stamp, name |-> name]

NoPath == Path("", 0, FileName("", ""))

\* What a path holds: nothing, the sheet a client uploaded, or the report of
\* the analysis of a client's sheet
Absent == [kind |-> "none", of |-> 0]

Sheet(c) == [kind |-> "sheet", of |-> c]

ReportOn(sheet) == [kind |-> "report", of |-> sheet.of]

\* A file on disk
File(path, content) == [path |-> path, content |-> content]

\* What the disk holds at a path
Holds(disk, path) ==
    IF \E f \in disk : f.path = path
      THEN (CHOOSE f \in disk : f.path = path).content
      ELSE Absent

\* The disk after os.remove of a path, a missing file being passed over
Removed(disk, path) == {f \in disk : f.path # path}

\* The disk after a write to a path: a new file, or the old one replaced
Written(disk, path, content) == Removed(disk, path) \cup {File(path, content)}

\* A request that has not arrived
NoRequest ==
    [pc |-> "idle", filepath |-> NoPath, sheet |-> Absent, success |-> FALSE,
     report |-> NoPath, output |-> NoPath, status |-> 0, served |-> Absent]

----------------------------------------------------------------------------
(* State of a fresh pipeline, and one run of RedFlagPipeline.run *)

Init ==
    /\ df = <<>>
    /\ columns = {}
    /\ clock \in CurrentDates
    /\ current_date = clock
    /\ results_set = FALSE
    /\ pc = "read"
    /\ total_records = 0
    /\ red_flagged = <<>>
    /\ green_flagged = <<>>
    /\ flag_summary = NoSummary
    /\ batch_flags = <<>>
    /\ i = 1
    /\ bi = 1
    /\ ai = 1
    /\ output_formats = DefaultFormats
    /\ returned = NotReturned
    /\ second = 0
    /\ files = {}
    /\ req = [c \in Clients |-> NoRequest]

\* The start of analyze_all_flags on a frame: the empty results
StartAnalysis(frame) ==
    /\ df' = frame
    /\ pc' = "analyze"
    /\ total_records' = Len(frame)
    /\ red_flagged' = <<>>
    /\ green_flagged' = <<>>
    /\ flag_summary' = NoSummary
    /\ i' = 1
    /\ UNCHANGED <<clock, current_date, results_set, batch_flags, bi, ai, returned, web>>

\* Step 1 of run, and the start of step 2.  A missing critical column is
\* logged by _validate_columns and the run goes on.
ReadExcel ==
    /\ pc = "read"
    /\ \E cells \in SeqsUpTo(PipelineRows, MaxRows), repeated_header \in BOOLEAN :
          /\ StartAnalysis(RangeFrame(cells))
          /\ columns' = ColumnsOf(cells, repeated_header)
    /\ output_formats' \in FormatLists

\* The except branch of run: 'success': False with the text of the exception.
\* self.results is left as it is.
Failed(error) ==
    /\ pc' = "failed"
    /\ returned' = Failure(error)
    /\ UNCHANGED <<df, columns, clock, current_date, results_set, total_records,
                   red_flagged, green_flagged, flag_summary, batch_flags, i, bi, ai, web>>

\* Step 1 of run raises: read_excel could not read the file
ReadFails ==
    /\ pc = "read"
    /\ output_formats' \in FormatLists
    /\ Failed("Could not read Excel file")

\* RedEntry that numbers the records from 1, without the header row (idx + 1).
RedEntry_OneBased(row, record_flags) ==
    [record_index |-> row.idx + 1, sr_no |-> row.sr, budget_item_no |-> row.bno,
     name_of_work |-> row.name, flags |-> record_flags]

\* The entry analyze_all_flags makes for a row
RedEntry(row, record_flags) ==
    [record_index |-> row.idx + 2, sr_no |-> row.sr, budget_item_no |-> row.bno,
     name_of_work |-> row.name, flags |-> record_flags]

GreenEntry(row) ==
    [record_index |-> row.idx + 2, sr_no |-> row.sr, budget_item_no |-> row.bno,
     name_of_work |-> row.name]

\* AnalyzeRecord that enters every record in red_flagged, with or without flags.
AnalyzeRecord_AlwaysRed ==
    /\ pc = "analyze"
    /\ i <= Len(df)
    /\ red_flagged' = Append(red_flagged, RedEntry(df[i], _analyze_single_record(df[i])))
    /\ i' = i + 1
    /\ UNCHANGED <<df, clock, current_date, columns, results_set, pc, total_records,
                   green_flagged, flag_summary, batch_flags, bi, ai, call, web>>

\* One iteration of the loop of analyze_all_flags
AnalyzeRecord ==
    /\ pc = "analyze"
    /\ i <= Len(df)
    /\ LET row == df[i]
           record_flags == _analyze_single_record(row)
       IN  IF record_flags # <<>>
           THEN /\ red_flagged' = Append(red_flagged, RedEntry(row, record_flags))
                /\ UNCHANGED green_flagged
           ELSE /\ green_flagged' = Append(green_flagged, GreenEntry(row))
                /\ UNCHANGED red_flagged
    /\ i' = i + 1
    /\ UNCHANGED <<df, clock, current_date, columns, results_set, pc, total_records,
                   flag_summary, batch_flags, bi, ai, call, web>>

\* The end of analyze_all_flags: the summary of the single-record flags.
\* The caller holds what it returns: run assigns it to self.results.
Summarize ==
    /\ pc = "analyze"
    /\ i > Len(df)
    /\ flag_summary' = _calculate_summary(red_flagged)
    /\ results_set' = TRUE
    /\ pc' = "batch"
    /\ UNCHANGED <<df, clock, current_date, columns, total_records,
                   red_flagged, green_flagged, batch_flags, i, bi, ai, call, web>>

\* Where run goes with the batch flags it got: the merge loop if there are any
AfterBatch(flags) == IF flags # <<>> THEN "merge" ELSE "recalc"

\* BatchFails without the except branch: the KeyError leaves run.
BatchFails_Unhandled ==
    /\ pc = "batch"
    /\ ~(BatchColumns \subseteq columns)
    /\ pc' = "raised"
    /\ UNCHANGED <<df, columns, clock, current_date, results_set, total_records,
                   red_flagged, green_flagged, flag_summary, batch_flags, i, bi, ai,
                   call, web>>

\* Step 3 of run raises: df['Road Category'] or df_copy['Date of Work_Order']
\* is a KeyError on a DataFrame without the column
BatchFails ==
    /\ pc = "batch"
    /\ ~(BatchColumns \subseteq columns)
    /\ UNCHANGED output_formats
    /\ Failed(IF "cat" \in columns THEN "'Date of Work_Order'" ELSE "'Road Category'")

\* Step 3 of run: the batch analysis
AnalyzeBatch ==
    /\ pc = "batch"
    /\ BatchColumns \subseteq columns
    /\ batch_flags' = analyze_batch_flags(df)
    /\ pc' = AfterBatch(batch_flags')
    /\ bi' = 1
    /\ ai' = 1
    /\ UNCHANGED <<df, clock, current_date, columns, results_set, total_records,
                   red_flagged, green_flagged, flag_summary, i, call, web>>

\* The positions of the entries of a list that carry the record index
EntriesOf(entries, record_index) ==
    {n \in 1..Len(entries) : entries[n].record_index = record_index}

First(S) == CHOOSE n \in S : \A m \in S : n <= m

\* green_entry.copy() with its 'flags'
Promoted(green_entry, batch_flag) ==
    [record_index |-> green_entry.record_index, sr_no |-> green_entry.sr_no,
     budget_item_no |-> green_entry.budget_item_no,
     name_of_work |-> green_entry.name_of_work, flags |-> <<batch_flag>>]

\* list.pop(n)
Pop(entries, n) == SubSeq(entries, 1, n - 1) \o SubSeq(entries, n + 1, Len(entries))

\* MergeOne that leaves the promoted entry in green_flagged (no pop).
MergeOne_NoPop(red, green, batch_flag, affected) ==
    LET existing == EntriesOf(red, affected.record_index)
        in_green == EntriesOf(green, affected.record_index)
    IN  IF existing # {}
        THEN [red |-> [red EXCEPT ![First(existing)].flags = Append(@, batch_flag)],
              green |-> green]
        ELSE IF in_green # {}
        THEN [red |-> Append(red, Promoted(green[First(in_green)], batch_flag)),
              green |-> green]
        ELSE [red |-> red, green |-> green]

\* MergeOne that looks the red entry up by the 0-based record_idx.
MergeOne_ZeroBased(red, green, batch_flag, affected) ==
    LET existing == EntriesOf(red, affected.record_index - 2)
        in_green == EntriesOf(green, affected.record_index)
    IN  IF existing # {}
        THEN [red |-> [red EXCEPT ![First(existing)].flags = Append(@, batch_flag)],
              green |-> green]
        ELSE IF in_green # {}
        THEN [red |-> Append(red, Promoted(green[First(in_green)], batch_flag)),
              green |-> Pop(green, First(in_green))]
        ELSE [red |-> red, green |-> green]

\* MergeOne that does nothing for a record that is red already.
MergeOne_PromoteOnly(red, green, batch_flag, affected) ==
    LET existing == EntriesOf(red, affected.record_index)
        in_green == EntriesOf(green, affected.record_index)
    IN  IF existing # {}
        THEN [red |-> red, green |-> green]
        ELSE IF in_green # {}
        THEN [red |-> Append(red, Promoted(green[First(in_green)], batch_flag)),
              green |-> Pop(green, First(in_green))]
        ELSE [red |-> red, green |-> green]

\* MergeOne that assigns the flags of an existing entry instead of appending.
MergeOne_Overwrite(red, green, batch_flag, affected) ==
    LET existing == EntriesOf(red, affected.record_index)
        in_green == EntriesOf(green, affected.record_index)
    IN  IF existing # {}
        THEN [red |-> [red EXCEPT ![First(existing)].flags = <<batch_flag>>],
              green |-> green]
        ELSE IF in_green # {}
        THEN [red |-> Append(red, Promoted(green[First(in_green)], batch_flag)),
              green |-> Pop(green, First(in_green))]
        ELSE [red |-> red, green |-> green]

\* MergeOne that appends the batch flag to every red entry when the record is red.
MergeOne_AppendAll(red, green, batch_flag, affected) ==
    LET existing == EntriesOf(red, affected.record_index)
        in_green == EntriesOf(green, affected.record_index)
    IN  IF existing # {}
        THEN [red |-> [n \in 1..Len(red) |->
                          [red[n] EXCEPT !.flags = Append(@, batch_flag)]],
              green |-> green]
        ELSE IF in_green # {}
        THEN [red |-> Append(red, Promoted(green[First(in_green)], batch_flag)),
              green |-> Pop(green, First(in_green))]
        ELSE [red |-> red, green |-> green]

\* The body of the merge loop for one affected record of one batch flag:
\* the two lists after it.
MergeOne(red, green, batch_flag, affected) ==
    LET existing == EntriesOf(red, affected.record_index)
        in_green == EntriesOf(green, affected.record_index)
    IN  IF existing # {}
        THEN [red |-> [red EXCEPT ![First(existing)].flags = Append(@, batch_flag)],
              green |-> green]
        ELSE IF in_green # {}
        THEN [red |-> Append(red, Promoted(green[First(in_green)], batch_flag)),
              green |-> Pop(green, First(in_green))]
        ELSE [red |-> red, green |-> green]

\* One iteration of the inner loop of the merge
MergeStep ==
    /\ pc = "merge"
    /\ LET batch_flag == batch_flags[bi]
           affected == batch_flag.affected_records[ai]
           merged == MergeOne(red_flagged, green_flagged, batch_flag, affected)
       IN  /\ red_flagged' = merged.red
           /\ green_flagged' = merged.green
           /\ IF ai < Len(batch_flag.affected_records)
              THEN /\ ai' = ai + 1
                   /\ UNCHANGED <<bi, pc>>
              ELSE IF bi < Len(batch_flags)
              THEN /\ bi' = bi + 1
                   /\ ai' = 1
                   /\ UNCHANGED pc
              ELSE /\ pc' = "recalc"
                   /\ UNCHANGED <<bi, ai>>
    /\ UNCHANGED <<df, clock, current_date, columns, results_set, total_records,
                   flag_summary, batch_flags, i, call, web>>

\* The summary left as analyze_all_flags computed it.
Recalculated_Stale(red) == flag_summary

\* The summary run computes after the merge
Recalculated(red) == _calculate_summary(red)

\* run, "Recalculate summary"
Recalculate ==
    /\ pc = "recalc"
    /\ flag_summary' = Recalculated(red_flagged)
    /\ pc' = "report"
    /\ UNCHANGED <<df, clock, current_date, columns, results_set, total_records,
                   red_flagged, green_flagged, batch_flags, i, bi, ai, call, web>>

\* Step 4 of run, every report generated, and the return of run
Report ==
    /\ pc = "report"
    /\ \A n \in 1..Len(output_formats) : output_formats[n] \in Supported
    /\ pc' = "done"
    /\ returned' = Success(output_formats)
    /\ UNCHANGED <<df, clock, current_date, columns, results_set, total_records,
                   red_flagged, green_flagged, flag_summary, batch_flags, i, bi, ai,
                   output_formats, web>>

\* Step 4 of run raises at the n-th format, the formats before it generated:
\* generate_report does not know the format, or writing the file fails
ReportFails ==
    /\ pc = "report"
    /\ \E n \in 1..Len(output_formats) :
          /\ \A m \in 1..(n - 1) : output_formats[m] \in Supported
          /\ Failed(IF output_formats[n] \in Supported
                    THEN "report file"
                    ELSE "Unsupported output format: " \o output_formats[n])
    /\ UNCHANGED output_formats

Next ==
    \/ ReadExcel
    \/ ReadFails
    \/ AnalyzeRecord
    \/ Summarize
    \/ AnalyzeBatch
    \/ BatchFails
    \/ MergeStep
    \/ Recalculate
    \/ Report
    \/ ReportFails

Spec == Init /\ [][Next]_vars

----------------------------------------------------------------------------
(* Properties of the partition and of the merge *)

RedIndices == {red_flagged[n].record_index : n \in 1..Len(red_flagged)}

GreenIndices == {green_flagged[n].record_index : n \in 1..Len(green_flagged)}

\* The positions of the batch flags that list the record index
Implicating(flags, record_index) ==
    {b \in 1..Len(flags) :
        \E a \in 1..Len(flags[b].affected_records) :
            flags[b].affected_records[a].record_index = record_index}

\* How often a flag occurs in a list of flags
Occurrences(flags, f) == Cardinality({n \in 1..Len(flags) : flags[n] = f})

IsBatchFlag(f) == f.flag_id \in {4, 6}

Analyzed == pc \in {"batch", "merge", "recalc", "report", "done"}

Merged == pc \in {"recalc", "report", "done"}

\* C1: once analyze_all_flags has returned, and after every step of the merge
\* loop, the red and the green entries together are as many as the records,
\* no record index is in both lists and none is twice in either.
C1_PartitionInvariant ==
    Analyzed =>
        /\ Len(red_flagged) + Len(green_flagged) = total_records
        /\ RedIndices \cap GreenIndices = {}
        /\ Cardinality(RedIndices) = Len(red_flagged)
        /\ Cardinality(GreenIndices) = Len(green_flagged)
        /\ RedIndices \cup GreenIndices = {df[n].idx + 2 : n \in 1..Len(df)}

\* C1 witness: inside the merge loop, after a step that promoted a green record
C1_Witness ==
    /\ pc = "merge"
    /\ ai = 2
    /\ green_flagged # <<>>
    /\ \E n \in 1..Len(red_flagged) : IsBatchFlag(red_flagged[n].flags[1])

\* C2: after the merge a record listed by two or more batch flags has exactly
\* one red entry and no green one, and every one of those batch flags is in
\* its flags, once for each time the flag lists the record.
C2_PromotionIdempotent ==
    Merged =>
        \A r \in {df[n].idx + 2 : n \in 1..Len(df)} :
            LET by == Implicating(batch_flags, r)
            IN  Cardinality(by) >= 2 =>
                    /\ Cardinality(EntriesOf(red_flagged, r)) = 1
                    /\ EntriesOf(green_flagged, r) = {}
                    /\ \A b \in by :
                          Occurrences(red_flagged[First(EntriesOf(red_flagged, r))].flags,
                                      batch_flags[b]) = 1

\* C2 witness: a record without a single-record flag that three batch flags list
C2_Witness ==
    /\ pc = "done"
    /\ \E n \in 1..Len(red_flagged) :
          /\ Cardinality(Implicating(batch_flags, red_flagged[n].record_index)) = 3
          /\ IsBatchFlag(red_flagged[n].flags[1])
          /\ Len(red_flagged[n].flags) = 3

\* The flags of the red entry of a record index in the next state
FlagsAfter(r) ==
    red_flagged'[First(EntriesOf(red_flagged', r))].flags

\* C4: in every step a red record stays red and out of green, its flags only
\* grow at the end, and a record that leaves green is red from that step on.
C4_NeverBackToGreen ==
    [][ /\ \A n \in 1..Len(red_flagged) :
              LET r == red_flagged[n].record_index
              IN  /\ r \in RedIndices'
                  /\ r \notin GreenIndices'
                  /\ Len(FlagsAfter(r)) >= Len(red_flagged[n].flags)
                  /\ SubSeq(FlagsAfter(r), 1, Len(red_flagged[n].flags))
                         = red_flagged[n].flags
        /\ \A r \in GreenIndices \ GreenIndices' :
              /\ r \in RedIndices'
              /\ Len(FlagsAfter(r)) = 1
        /\ Len(red_flagged') >= Len(red_flagged) ]_vars

\* C4 witness: a record red by a single-record flag whose flags grew in the merge
C4_Witness ==
    /\ pc = "done"
    /\ \E n \in 1..Len(red_flagged) :
          /\ ~IsBatchFlag(red_flagged[n].flags[1])
          /\ IsBatchFlag(red_flagged[n].flags[Len(red_flagged[n].flags)])
    /\ \E n \in 1..Len(red_flagged) : IsBatchFlag(red_flagged[n].flags[1])

RECURSIVE SumOver(_, _)
\* The sum of the counts of a mapping over the keys S
SumOver(counts, S) ==
    IF S = {} THEN 0
    ELSE LET x == CHOOSE y \in S : TRUE
         IN  counts[x] + SumOver(counts, S \ {x})

RECURSIVE TotalFlags(_)
TotalFlags(red) ==
    IF red = <<>> THEN 0 ELSE Len(Head(red).flags) + TotalFlags(Tail(red))

\* C5: in the result handed to the report generator total_red_flags is the
\* number of red records, and the counts by flag type and the counts by
\* severity each add up to the number of flags attached to the red records.
C5_SummaryAfterMerge ==
    pc \in {"report", "done"} =>
        /\ flag_summary.total_red_flags = Len(red_flagged)
        /\ SumOver(flag_summary.by_flag_type, DOMAIN flag_summary.by_flag_type)
              = TotalFlags(red_flagged)
        /\ SumOver(flag_summary.by_severity, DOMAIN flag_summary.by_severity)
              = TotalFlags(red_flagged)
        /\ \A n \in 1..Len(red_flagged) : \A m \in 1..Len(red_flagged[n].flags) :
              red_flagged[n].flags[m].flag_name \in DOMAIN flag_summary.by_flag_type

\* C5 witness: a report after a merge that attached one batch flag to three
\* records, one of them red before, so that there are more flags than records
C5_Witness ==
    /\ pc = "report"
    /\ \E b \in 1..Len(batch_flags) : Len(batch_flags[b].affected_records) = 3
    /\ TotalFlags(red_flagged) > Len(red_flagged)
    /\ \E n \in 1..Len(red_flagged) : ~IsBatchFlag(red_flagged[n].flags[1])

----------------------------------------------------------------------------
(* The merge with the batch flags supplied in any order *)

RECURSIVE Orders(_)
\* The sequences that hold every element of S once
Orders(S) ==
    IF S = {} THEN {<<>>}
    ELSE UNION {{<<x>> \o rest : rest \in Orders(S \ {x})} : x \in S}

\* The permutations of 1..n
Perms(n) == Orders(1..n)

\* The orders in which a list of n batch flags is handed over: every order of
\* a list of up to MaxPermuted flags, the detectors' order of a longer one
Handovers(n) == IF n <= MaxPermuted THEN Perms(n) ELSE {[m \in 1..n |-> m]}

Permuted(s, q) == [n \in 1..Len(s) |-> s[q[n]]]

\* Step 3 of run with the list of batch flags handed over in some order
AnalyzeBatchAnyOrder ==
    /\ pc = "batch"
    /\ BatchColumns \subseteq columns
    /\ \E q \in Handovers(Len(analyze_batch_flags(df))) :
          batch_flags' = Permuted(analyze_batch_flags(df), q)
    /\ pc' = AfterBatch(batch_flags')
    /\ bi' = 1
    /\ ai' = 1
    /\ UNCHANGED <<df, clock, current_date, columns, results_set, total_records,
                   red_flagged, green_flagged, flag_summary, i, call, web>>

NextAnyOrder ==
    \/ ReadExcel
    \/ ReadFails
    \/ AnalyzeRecord
    \/ Summarize
    \/ AnalyzeBatchAnyOrder
    \/ BatchFails
    \/ MergeStep
    \/ Recalculate
    \/ Report
    \/ ReportFails

SpecAnyOrder == Init /\ [][NextAnyOrder]_vars

\* The row of a record index
RowAt(r) == df[First({n \in 1..Len(df) : df[n].idx + 2 = r})]

\* C3: whatever the order in which the batch flags are merged, the red records
\* are the records with a single-record flag or listed by a batch flag, the
\* green records are the others, and the flags of a red record are its
\* single-record flags and the batch flags listing it, each once.
C3_MergeOrderIndependent ==
    Merged =>
        LET base == analyze_batch_flags(df)
            all == {df[n].idx + 2 : n \in 1..Len(df)}
            red == {r \in all : \/ _analyze_single_record(RowAt(r)) # <<>>
                                \/ Implicating(base, r) # {}}
        IN  /\ RedIndices = red
            /\ GreenIndices = all \ red
            /\ Len(red_flagged) = Cardinality(red)
            /\ \A n \in 1..Len(red_flagged) :
                  LET r == red_flagged[n].record_index
                      own == _analyze_single_record(RowAt(r))
                  IN  /\ Len(red_flagged[n].flags)
                            = Len(own) + Cardinality(Implicating(base, r))
                      /\ \A m \in 1..Len(own) :
                            Occurrences(red_flagged[n].flags, own[m]) = 1
                      /\ \A b \in Implicating(base, r) :
                            Occurrences(red_flagged[n].flags, base[b]) = 1

\* C3 witness: a merge in another order than the detectors' of flags that share
\* a record, with a record that was red before
C3_Witness ==
    /\ pc = "done"
    /\ batch_flags # analyze_batch_flags(df)
    /\ batch_flags[1].flag_id = 6
    /\ \E n \in 1..Len(red_flagged) :
          /\ ~IsBatchFlag(red_flagged[n].flags[1])
          /\ Cardinality(Implicating(batch_flags, red_flagged[n].record_index)) >= 2

----------------------------------------------------------------------------
(* The single-record rules on one row *)

\* Rows that differ in the cells the two rules read
RuleRows ==
    { RowOf(SH56, Cat("A"), Num(0), Num(5), Num(Lakh(8)), aa, exp, date, tl, prog) :
        aa \in {Null, Empty, Text, Num(0), Num(-Lakh(100)), Num(Lakh(100)),
                NumStr(Lakh(100))},
        exp \in {Null, Num(Lakh(50)), Num(Lakh(110)), Num(Lakh(110) + 1),
                 Num(Lakh(200)), Num(-Lakh(200))},
        date \in {Null, Text, DateCell(Days(10)), DateCell(Days(10) + 1)},
        tl \in {Null, Text, Num(0), Num(1), Num(-Days(3)), Num(Days(9)),
                Num(Days(10)), NumStr(Days(10))},
        prog \in {Null, Text, Num(99), Num(100)} }

\* analyze_all_flags on a frame of one row
LoadRuleRow ==
    /\ pc = "read"
    /\ \E cells \in RuleRows : StartAnalysis(RangeFrame(<<cells>>))
    /\ columns' = AllColumns
    /\ UNCHANGED output_formats

NextRules ==
    \/ LoadRuleRow
    \/ AnalyzeRecord
    \/ Summarize

SpecRules == Init /\ [][NextRules]_vars

\* The flags the result holds for a record index
FlagsOf(r) ==
    IF EntriesOf(red_flagged, r) = {} THEN <<>>
    ELSE red_flagged[First(EntriesOf(red_flagged, r))].flags

\* The flags with a flag_id among the flags of a record
WithId(r, id) == {m \in 1..Len(FlagsOf(r)) : FlagsOf(r)[m].flag_id = id}

\* Whether a cell holds a number, as such or as text
IsNumber(cell) == cell.k \in {"num", "numstr"}

\* C9: a record that has been analysed has one excess expenditure flag, of
\* severity HIGH, if its approval cost is a number > 0 and the expenditure
\* exceeds it by more than 10 %, and none otherwise; an excess of 10.01 % is
\* flagged and one of 10.00 % is not.
C9_ExcessExpenditure ==
    \A n \in 1..Len(df) :
        n < i =>
            LET row == df[n]
                r == row.idx + 2
                spent == IF IsNumber(row.exp) THEN row.exp.v ELSE 0
                over == /\ IsNumber(row.aa)
                        /\ row.aa.v > 0
                        /\ (spent - row.aa.v) * 100 > 10 * row.aa.v
            IN  /\ Cardinality(WithId(r, 3)) = (IF over THEN 1 ELSE 0)
                /\ \A m \in WithId(r, 3) : FlagsOf(r)[m].severity = "HIGH"
                /\ row.aa.v = Lakh(100) /\ IsNumber(row.aa) /\ row.exp = Num(Lakh(110))
                      => WithId(r, 3) = {}
                /\ row.aa.v = Lakh(100) /\ IsNumber(row.aa) /\ row.exp = Num(Lakh(110) + 1)
                      => WithId(r, 3) # {}

\* C9 witness: an analysed record with approval 100.00 and expenditure 110.01
\* that carries the flag, with 10.01 % in its details
C9_Witness ==
    /\ pc = "batch"
    /\ Len(df) = 1
    /\ df[1].aa = Num(Lakh(100))
    /\ df[1].exp = Num(Lakh(110) + 1)
    /\ WithId(2, 3) # {}
    /\ \A m \in WithId(2, 3) : FlagsOf(2)[m].details.excess_percentage = 1001

\* C10: a record that has been analysed has one delay flag, of severity
\* MEDIUM, if it has a work order date, a time limit of at least one whole
\* day, a progress under 100 (0 if missing), and the current date is after
\* the date plus the limit; none otherwise.  delay_days is the number of
\* whole days from the expected completion to the current date.
C10_DelayInCompletion ==
    \A n \in 1..Len(df) :
        n < i =>
            LET row == df[n]
                r == row.idx + 2
                limit == IF IsNumber(row.tl) THEN TruncDays(row.tl.v) ELSE 0
                progress == IF IsNumber(row.prog) THEN row.prog.v ELSE 0
                expected == row.date.v + Days(limit)
                late == /\ row.date.k = "date"
                        /\ limit > 0
                        /\ current_date > expected
                        /\ progress < 100
            IN  /\ Cardinality(WithId(r, 5)) = (IF late THEN 1 ELSE 0)
                /\ \A m \in WithId(r, 5) :
                      LET d == FlagsOf(r)[m].details.delay_days
                      IN  /\ FlagsOf(r)[m].severity = "MEDIUM"
                          /\ d >= 0
                          /\ Days(d) <= current_date - expected
                          /\ current_date - expected < Days(d + 1)

\* C10 witness: a delay flag of one whole day for a current date inside a day
C10_Witness ==
    /\ pc = "batch"
    /\ Len(df) = 1
    /\ current_date = Days(20) + 1
    /\ df[1].date = DateCell(Days(10))
    /\ df[1].tl = Num(Days(9))
    /\ df[1].prog = Null
    /\ WithId(2, 5) # {}
    /\ \A m \in WithId(2, 5) : FlagsOf(2)[m].details.delay_days = 1

----------------------------------------------------------------------------
(* The batch detectors on frames in any row order *)

\* The rows cells with the index labels q[n] - 1: a frame whose rows are not
\* in the order of their labels
Labelled(cells, q) == [n \in 1..Len(cells) |-> At(cells[n], q[n] - 1)]

\* An analyzer whose batch detectors are called on a frame of their own
InitDetector == Init /\ current_date = Days(20)

\* A name with two route references: the SH pattern is tried first
MDR43viaSH56 == Name(<<Route("MDR", "43"), Word, Route("sh", "56")>>)

\* A name without a route reference of a known class
Unnumbered == Name(<<Word, Route("ODR", "12")>>)

Plain(name, cat, from, to) ==
    RowOf(name, cat, from, to, Num(Lakh(500)), Null, Null, Null, Null, Null)

OverlapRows ==
    { Plain(SH56, Cat("A"), Num(0), Num(5)),
      Plain(SH56, Cat("A"), Num(5), Num(10)),
      Plain(SH56, Cat("A"), Num(11), Num(12)),
      Plain(SH240, Cat("A"), Num(0), Num(5)),
      Plain(Unnumbered, Cat("A"), Num(0), Num(5)),
      Plain(SH56, Cat("A"), Null, Num(0)),
      Plain(SH56, NoCat, Num(0), Num(5)),
      Plain(MDR43viaSH56, Cat("A"), Num(3), Num(4)),
      Plain(SH56, Cat("B"), Num(0), Num(5)) }

LoadOverlapFrame ==
    /\ pc = "read"
    /\ \E n \in 0..MaxBatchRows :
          \E cells \in [1..n -> OverlapRows], q \in Perms(n) :
              df' = Labelled(cells, q)
    /\ pc' = "overlap"
    /\ UNCHANGED <<clock, current_date, columns, results_set, total_records,
                   red_flagged, green_flagged, flag_summary, batch_flags, i, bi, ai,
                   call, web>>

\* _check_overlapping_works(df)
RunOverlap ==
    /\ pc = "overlap"
    /\ batch_flags' = _check_overlapping_works(df)
    /\ pc' = "overlapped"
    /\ UNCHANGED <<df, clock, current_date, columns, results_set, total_records,
                   red_flagged, green_flagged, flag_summary, i, bi, ai, call, web>>

NextOverlap ==
    \/ LoadOverlapFrame
    \/ RunOverlap

SpecOverlap == InitDetector /\ [][NextOverlap]_vars

\* The record indices a batch flag lists
Members(flag) ==
    {flag.affected_records[a].record_index : a \in 1..Len(flag.affected_records)}

\* Whether the row has a chainage other than (0, 0)
HasChainage(row) == ~(_safe_float(row.from) = 0 /\ _safe_float(row.to) = 0)

\* The closed intervals of two rows meet
Meet(row1, row2) ==
    ~(\/ _safe_float(row1.to) < _safe_float(row2.from)
      \/ _safe_float(row2.to) < _safe_float(row1.from))

RoadKey(row) == _extract_road_number(UpperName(row))

\* C6: for two distinct rows of one road category with chainages, the same
\* road key and intervals that meet, the detector returns one flag listing
\* exactly the two, wherever the rows stand in the frame; no flag lists a
\* record twice and no two flags list the same records.
C6_OverlapSymmetry ==
    pc = "overlapped" =>
        /\ \A a, b \in 1..Len(df) :
              /\ a # b
              /\ ~IsNa(df[a].cat)
              /\ df[a].cat = df[b].cat
              /\ HasChainage(df[a])
              /\ HasChainage(df[b])
              /\ RoadKey(df[a]) # NoKey
              /\ RoadKey(df[a]) = RoadKey(df[b])
              /\ Meet(df[a], df[b])
              => Cardinality({f \in 1..Len(batch_flags) :
                    Members(batch_flags[f]) = {df[a].idx + 2, df[b].idx + 2}}) = 1
        /\ \A f \in 1..Len(batch_flags) :
              /\ Len(batch_flags[f].affected_records) = 2
              /\ Cardinality(Members(batch_flags[f])) = 2
        /\ \A f, g \in 1..Len(batch_flags) :
              Members(batch_flags[f]) = Members(batch_flags[g]) => f = g

\* C6 witness: an overlapping pair whose row with the larger label comes first
\* in the frame, among three rows that overlap pairwise
C6_Witness ==
    /\ pc = "overlapped"
    /\ Len(df) = 3
    /\ df[1].idx > df[2].idx
    /\ Len(batch_flags) = 3
    /\ \E f \in 1..Len(batch_flags) :
          Members(batch_flags[f]) = {df[1].idx + 2, df[2].idx + 2}

\* C8: every overlap flag lists two rows that both have a road key, and the
\* same one; rows on SH56 and SH240 are never listed together.
C8_OverlapNeedsEqualKeys ==
    pc = "overlapped" =>
        \A f \in 1..Len(batch_flags) :
            \A r1, r2 \in Members(batch_flags[f]) :
                /\ RoadKey(RowAt(r1)) # NoKey
                /\ RoadKey(RowAt(r1)) = RoadKey(RowAt(r2))
                /\ ~(RowAt(r1).name = SH56 /\ RowAt(r2).name = SH240)
                /\ RowAt(r1).name # Unnumbered

\* C8 witness: three rows of one category with the same chainage, on SH56, on
\* SH240 and without a key, for which the detector returns no flag
C8_Witness ==
    /\ pc = "overlapped"
    /\ Len(df) = 3
    /\ df[1] = At(Plain(SH56, Cat("A"), Num(0), Num(5)), df[1].idx)
    /\ df[2] = At(Plain(SH240, Cat("A"), Num(0), Num(5)), df[2].idx)
    /\ df[3] = At(Plain(Unnumbered, Cat("A"), Num(0), Num(5)), df[3].idx)
    /\ batch_flags = <<>>

----------------------------------------------------------------------------
(* The splitting detector on frames in any row order *)

Small(name, cat, date, cost, from, to) ==
    RowOf(name, cat, Num(from), Num(to), cost, Null, Null, date, Null, Null)

SplitRows ==
    { Small(SH56, Cat("A"), DateCell(Days(8)), Num(Lakh(9)), 0, 20),
      Small(SH56, Cat("A"), DateCell(Days(9)), Num(Lakh(8) + 50), 0, 1),
      Small(SH56, Cat("A"), DateCell(Days(10)), Num(Lakh(7)), 7, 8),
      Small(SH56, Cat("A"), DateCell(Days(11)), Num(Lakh(6)), 13, 14),
      Small(SH56, Cat("A"), DateCell(Days(8)), Num(Lakh(10)), 1, 2),
      Small(SH240, Cat("A"), DateCell(Days(8)), Num(Lakh(9)), 1, 2),
      Small(SH56, Cat("A"), DateCell(Days(16)), Num(Lakh(9)), 1, 2),
      Small(SH56, Cat("A"), Null, Num(Lakh(9)), 1, 2) }

LoadSplitFrame ==
    /\ pc = "read"
    /\ \E n \in 0..MaxBatchRows :
          \E cells \in [1..n -> SplitRows], q \in Perms(n) :
              df' = Labelled(cells, q)
    /\ pc' = "split"
    /\ UNCHANGED <<clock, current_date, columns, results_set, total_records,
                   red_flagged, green_flagged, flag_summary, batch_flags, i, bi, ai,
                   call, web>>

\* _check_splitting_of_works(df)
RunSplit ==
    /\ pc = "split"
    /\ batch_flags' = _check_splitting_of_works(df)
    /\ pc' = "split_done"
    /\ UNCHANGED <<df, clock, current_date, columns, results_set, total_records,
                   red_flagged, green_flagged, flag_summary, i, bi, ai, call, web>>

NextSplit ==
    \/ LoadSplitFrame
    \/ RunSplit

SpecSplit == InitDetector /\ [][NextSplit]_vars

\* What identifies a splitting flag: the year, the road and the records
SplitIds(flags) ==
    {[year |-> flags[f].year, road |-> flags[f].description,
      records |-> Members(flags[f])] : f \in 1..Len(flags)}

\* C7: the splitting flags of a frame, identified by year, road key and
\* member records, are those of every reordering of its rows.
C7_SplitOrderIndependent ==
    pc = "split_done" =>
        \A q \in Perms(Len(df)) :
            SplitIds(_check_splitting_of_works(Permuted(df, q))) = SplitIds(batch_flags)

----------------------------------------------------------------------------
(* The splitting detector on the groups it forms *)

\* A row of road category A with the cells the splitting detector reads
Piece(name, date, cost, from, to) ==
    RowOf(name, Cat("A"), from, to, cost, Null, Null, date, Null, Null)

\* Small contracts along SH-56 in one year: four in continuation (the last one
\* 5 after the third), one 6 after the fourth; contracts of the same stretch
\* whose cost is no small cost; a contract without chainage and one on a road
\* without a number
GroupRows ==
    { Piece(SH56, DateCell(Days(8)), Num(Lakh(8) + 50), Num(0), Num(5)),
      Piece(SH56, DateCell(Days(9)), Num(Lakh(7)), Num(5), Num(10)),
      Piece(SH56, DateCell(Days(10)), Num(Lakh(6)), Num(10), Num(15)),
      Piece(SH56, DateCell(Days(11)), Num(Lakh(9)), Num(20), Num(21)),
      Piece(SH56, DateCell(Days(11)), Num(Lakh(10) - 1), Num(27), Num(28)),
      Piece(SH56, DateCell(Days(9)), Num(0), Num(5), Num(10)),
      Piece(SH56, DateCell(Days(9)), Null, Num(5), Num(10)),
      Piece(SH56, DateCell(Days(9)), Text, Num(5), Num(10)),
      Piece(SH56, DateCell(Days(9)), Num(-Lakh(5)), Num(5), Num(10)),
      Piece(SH56, DateCell(Days(9)), Num(Lakh(10)), Num(5), Num(10)),
      Piece(SH56, DateCell(Days(9)), Num(Lakh(11)), Num(5), Num(10)),
      Piece(SH56, DateCell(Days(9)), Num(Lakh(9)), Null, Null),
      Piece(Unnumbered, DateCell(Days(9)), Num(Lakh(7)), Num(5), Num(10)),
      Piece(NoName, DateCell(Days(9)), Num(Lakh(7)), Num(5), Num(10)) }

\* Three small contracts along SH-56 in the year of the date: two in
\* continuation and a third that begins `gap` after the second ends
Stretch(date, gap) ==
    { Piece(SH56, date, Num(Lakh(5)), Num(5), Num(10)),
      Piece(SH56, date, Num(Lakh(4)), Num(10), Num(15)),
      Piece(SH56, date, Num(Lakh(3)), Num(15 + gap), Num(16 + gap)) }

\* The gaps of a stretch: the largest continuous one and the smallest broken
Gaps == {GapLimit, GapLimit + 1}

\* Two stretches of SH-56 in two years, the rows in any order
TwoStretches ==
    UNION {Orders(Stretch(DateCell(Days(8)), g1) \cup Stretch(DateCell(Days(16)), g2)) :
              g1 \in Gaps, g2 \in Gaps}

\* A stretch of SH-56 and one more row of its year, the rows in any order
StretchAndRow ==
    UNION {Orders(Stretch(DateCell(Days(8)), g) \cup {x}) : g \in Gaps, x \in GroupRows}

LoadGroupFrame ==
    /\ pc = "read"
    /\ \E cells \in SeqsUpTo(GroupRows, MaxBatchRows) : df' = RangeFrame(cells)
    /\ pc' = "split"
    /\ UNCHANGED <<clock, current_date, columns, results_set, total_records,
                   red_flagged, green_flagged, flag_summary, batch_flags, i, bi, ai,
                   call, web>>

LoadStretches ==
    /\ pc = "read"
    /\ \E cells \in TwoStretches \cup StretchAndRow : df' = RangeFrame(cells)
    /\ pc' = "split"
    /\ UNCHANGED <<clock, current_date, columns, results_set, total_records,
                   red_flagged, green_flagged, flag_summary, batch_flags, i, bi, ai,
                   call, web>>

NextGroups ==
    \/ LoadGroupFrame
    \/ LoadStretches
    \/ RunSplit

SpecGroups == InitDetector /\ [][NextGroups]_vars

\* Whether the cost cell holds a number strictly between 0 and 10 lakh
SmallCost(row) ==
    IsNumber(row.cost) /\ row.cost.v > 0 /\ row.cost.v < Lakh(10)

\* Whether the row belongs to a group: it has a year, a category, a road key
\* and a small cost
Grouped(row) ==
    /\ row.date.k = "date"
    /\ ~IsNa(row.cat)
    /\ RoadKey(row) # NoKey
    /\ SmallCost(row)

\* The positions of the rows of the group of the row at position n
GroupAt(n) ==
    {m \in 1..Len(df) :
        /\ Grouped(df[m])
        /\ YearOf(df[m].date.v) = YearOf(df[n].date.v)
        /\ df[m].cat = df[n].cat
        /\ RoadKey(df[m]) = RoadKey(df[n])}

\* The order of the rows by Chainage From ascending, rows with the same
\* Chainage From in the order of the frame
Before(a, b) ==
    \/ _safe_float(df[a].from) < _safe_float(df[b].from)
    \/ _safe_float(df[a].from) = _safe_float(df[b].from) /\ a < b

\* b follows a in the group G put in that order
Adjacent(G, a, b) ==
    /\ Before(a, b)
    /\ ~\E c \in G : Before(a, c) /\ Before(c, b)

\* No adjacent gap next.from - current.to of the group is over 5
Unbroken(G) ==
    \A a, b \in G :
        Adjacent(G, a, b) => _safe_float(df[b].from) - _safe_float(df[a].to) <= 5

\* The splitting flags that list a row of the group
FlagsOn(G) ==
    {f \in 1..Len(batch_flags) :
        Members(batch_flags[f]) \cap {df[m].idx + 2 : m \in G} # {}}

\* C11: a group of three or more rows (same year, category and road key, each
\* cost strictly between 0 and 10) gets exactly one splitting flag if every gap
\* next.from - current.to between adjacent rows, the group sorted by Chainage
\* From ascending, is <= 5, and no flag lists any of its rows if one gap is
\* > 5, even when some of its rows are in continuation.
C11_SplitAllOrNothing ==
    pc = "split_done" =>
        \A n \in 1..Len(df) :
            Grouped(df[n]) /\ Cardinality(GroupAt(n)) >= 3 =>
                IF Unbroken(GroupAt(n))
                THEN Cardinality(FlagsOn(GroupAt(n))) = 1
                ELSE FlagsOn(GroupAt(n)) = {}

\* C11 witness: two groups of three in two years, the first with a largest gap
\* of exactly 5 and a flag, the second with a gap of 6 after two rows in
\* continuation and no flag
C11_Witness ==
    /\ pc = "split_done"
    /\ Len(df) = 6
    /\ \E n \in 1..Len(df) :
          /\ df[n].date = DateCell(Days(8))
          /\ _safe_float(df[n].from) = 15 + 5
          /\ Cardinality(FlagsOn(GroupAt(n))) = 1
    /\ \E n \in 1..Len(df) :
          /\ df[n].date = DateCell(Days(16))
          /\ _safe_float(df[n].from) = 15 + 6
          /\ Cardinality(GroupAt(n)) = 3
          /\ FlagsOn(GroupAt(n)) = {}
    /\ Len(batch_flags) = 1

\* C12: every record a splitting flag lists has a contract cost that is a
\* number strictly between 0 and 10, and the flag lists at least three such
\* records: a record whose cost is 0, missing, no number, negative, 10 or more
\* is in no flag and does not count towards the three.
C12_SplitMembersSmall ==
    pc = "split_done" =>
        \A f \in 1..Len(batch_flags) :
            /\ \A r \in Members(batch_flags[f]) :
                  /\ IsNumber(RowAt(r).cost)
                  /\ RowAt(r).cost.v > 0
                  /\ RowAt(r).cost.v < Lakh(10)
            /\ \A a \in 1..Len(batch_flags[f].affected_records) :
                  /\ batch_flags[f].affected_records[a].contract_cost_lakh > 0
                  /\ batch_flags[f].affected_records[a].contract_cost_lakh < Lakh(10)
            /\ Cardinality(Members(batch_flags[f])) >= 3

\* C12 witness: two small contracts in continuation with a contract of exactly
\* 10 lakh on the stretch between them, and no flag
C12_Witness ==
    /\ pc = "split_done"
    /\ Len(df) = 3
    /\ \E n \in 1..3 : df[n].cost = Num(Lakh(10)) /\ RoadKey(df[n]) = "SH56"
    /\ Cardinality({n \in 1..3 : Grouped(df[n])}) = 2
    /\ \A n \in 1..3 : Cardinality({m \in 1..3 : Before(m, n)}) = n - 1
    /\ \A n \in 1..2 : _safe_float(df[n + 1].from) = _safe_float(df[n].to)
    /\ batch_flags = <<>>

RECURSIVE CostOver(_)
\* The sum of the contract costs of the rows at the positions G
CostOver(G) ==
    IF G = {} THEN 0
    ELSE LET n == CHOOSE m \in G : TRUE
         IN  df[n].cost.v + CostOver(G \ {n})

\* C13: every group of three or more rows in continuation has exactly one
\* flag: flag_id 6, severity HIGH, every row of the group listed once and
\* no other, total_cost the sum of the contract costs of the rows.  Every flag
\* of the detector is the flag of such a group.  Costs 8.5, 7.0 and 6.0 give a
\* total of 21.5.
C13_OneFlagPerGroup ==
    pc = "split_done" =>
        /\ \A n \in 1..Len(df) :
              Grouped(df[n]) /\ Cardinality(GroupAt(n)) >= 3 /\ Unbroken(GroupAt(n)) =>
                  \E f \in 1..Len(batch_flags) :
                      /\ \A g \in 1..Len(batch_flags) :
                            Members(batch_flags[g]) \cap Members(batch_flags[f]) # {}
                                => g = f
                      /\ batch_flags[f].flag_id = 6
                      /\ batch_flags[f].severity = "HIGH"
                      /\ Members(batch_flags[f]) = {df[m].idx + 2 : m \in GroupAt(n)}
                      /\ Len(batch_flags[f].affected_records) = Cardinality(GroupAt(n))
                      /\ batch_flags[f].total_cost = CostOver(GroupAt(n))
                      /\ (/\ Cardinality(GroupAt(n)) = 3
                          /\ {df[m].cost.v : m \in GroupAt(n)}
                                 = {Lakh(8) + 50, Lakh(7), Lakh(6)})
                         => batch_flags[f].total_cost = Lakh(21) + 50
        /\ \A f \in 1..Len(batch_flags) :
              \E n \in 1..Len(df) :
                  /\ Grouped(df[n])
                  /\ Unbroken(GroupAt(n))
                  /\ Members(batch_flags[f]) = {df[m].idx + 2 : m \in GroupAt(n)}

\* C13 witness: two groups in continuation in two years with a flag each, the
\* first flag listing the three rows of the year that comes first in the frame
C13_Witness ==
    /\ pc = "split_done"
    /\ Len(df) = 6
    /\ Len(batch_flags) = 2
    /\ batch_flags[1].total_cost = Lakh(12)
    /\ batch_flags[2].total_cost = Lakh(12)
    /\ Members(batch_flags[1]) \cap Members(batch_flags[2]) = {}
    /\ Cardinality(Members(batch_flags[1])) = 3
    /\ df[1].idx + 2 \in Members(batch_flags[1])
    /\ df[2].idx + 2 \in Members(batch_flags[2])

\* C16: no splitting flag lists a record whose Chainage From and Chainage To
\* are both missing, nor a record whose name yields no road key.
C16_NonConformingExcluded ==
    pc = "split_done" =>
        \A f \in 1..Len(batch_flags) :
            \A r \in Members(batch_flags[f]) :
                /\ ~(IsNa(RowAt(r).from) /\ IsNa(RowAt(r).to))
                /\ RoadKey(RowAt(r)) # NoKey

----------------------------------------------------------------------------
(* Error outcomes of a run *)

\* C14: whenever analyze_all_flags has returned a result to run, and whenever
\* run has returned success, the input had at least one record and every
\* critical column: no records or a missing critical column never end in a
\* result.
C14_AbsenceIsError ==
    pc \in {"batch", "merge", "recalc", "report", "done"} =>
        /\ total_records > 0
        /\ CriticalColumns \subseteq columns

\* C17: every flag in the flags of a red entry of the result of a run that
\* succeeded, whichever rule or detector made it, has the keys flag_id,
\* flag_name, severity, description and details.
C17_FindingKeys ==
    pc = "done" =>
        \A n \in 1..Len(red_flagged) :
            \A m \in 1..Len(red_flagged[n].flags) :
                {"flag_id", "flag_name", "severity", "description", "details"}
                    \subseteq red_flagged[n].flags[m].keys

\* C20: in the result analyze_all_flags returns and in every state of the
\* result from then on, through the merge and after it, by_severity has
\* exactly the keys HIGH, MEDIUM and LOW and each count is a natural number.
C20_BySeverityKeys ==
    results_set =>
        /\ DOMAIN flag_summary.by_severity = {"HIGH", "MEDIUM", "LOW"}
        /\ \A sv \in DOMAIN flag_summary.by_severity :
              flag_summary.by_severity[sv] \in Nat

\* C20 witness: the result of a run over three records none of which is red,
\* with three counts of 0
C20_Witness ==
    /\ pc = "done"
    /\ total_records = 3
    /\ red_flagged = <<>>
    /\ \A sv \in {"HIGH", "MEDIUM", "LOW"} : flag_summary.by_severity[sv] = 0

----------------------------------------------------------------------------
(* The clock during a run of analyze_all_flags *)

\* Time passes: after the analyzer is constructed, and between two records
Tick ==
    /\ pc \in {"read", "analyze"}
    /\ clock < current_date + MaxTicks
    /\ clock' = clock + 1
    /\ UNCHANGED <<df, columns, current_date, results_set, pc, total_records,
                   red_flagged, green_flagged, flag_summary, batch_flags, i, bi, ai,
                   call, web>>

\* A work in progress ordered on the day `date` with a time limit of tl days
Due(date, tl) ==
    RowOf(SH56, Cat("A"), Null, Null, Null, Null, Null,
          DateCell(date), Num(Days(tl)), Num(50))

\* Works whose expected completion is before, at, and up to a day after the
\* moments at which an analyzer is constructed
ClockRows ==
    { Due(Days(10), 9), Due(Days(10), 10), Due(Days(10) + 1, 10), Due(Days(10), 11) }

LoadClockRows ==
    /\ pc = "read"
    /\ \E cells \in SeqsUpTo(ClockRows, MaxRows) : StartAnalysis(RangeFrame(cells))
    /\ columns' = AllColumns
    /\ UNCHANGED output_formats

NextClock ==
    \/ LoadClockRows
    \/ Tick
    \/ AnalyzeRecord
    \/ Summarize

SpecClock == Init /\ [][NextClock]_vars

\* The moment the work of a row is expected to be complete
ExpectedCompletion(row) == row.date.v + Days(TruncDays(row.tl.v))

----------------------------------------------------------------------------
(* Several runs of one pipeline *)

\* run is called again on the pipeline: the locals of the call before are
\* gone, self.df and self.results are as that call left them
RunAgain ==
    /\ pc \in {"done", "failed"}
    /\ pc' = "read"
    /\ batch_flags' = <<>>
    /\ i' = 1
    /\ bi' = 1
    /\ ai' = 1
    /\ returned' = NotReturned
    /\ UNCHANGED <<df, columns, clock, current_date, results_set, total_records,
                   red_flagged, green_flagged, flag_summary, output_formats, web>>

NextRuns ==
    \/ Next
    \/ RunAgain

SpecRuns == Init /\ [][NextRuns]_vars

\* What get_summary reports when there is no result
NoResult == [error |-> TRUE, total_records |-> 0, red_flagged |-> 0, green_flagged |-> 0]

\* get_summary, without the flag_summary it passes on
get_summary ==
    IF ~results_set THEN NoResult
    ELSE [error |-> FALSE,
          total_records |-> total_records,
          red_flagged |-> Len(red_flagged),
          green_flagged |-> Len(green_flagged)]

\* C19: after a run that returned success = False, get_summary reports that
\* there is no analysis result.
C19_FailedRunLeavesNothing ==
    pc = "failed" => get_summary = NoResult

----------------------------------------------------------------------------
(* The record index through the detectors and the merge *)

\* The entries of the batch flags: <<b, a>> for affected record a of flag b
Listed ==
    {ba \in (1..Len(batch_flags)) \X (1..Len(df)) :
        ba[2] <= Len(batch_flags[ba[1]].affected_records)}

\* C21: after the merge every record index a batch flag lists is the index of
\* one entry of the result, a red one, whose flags hold that batch flag; the
\* entry and the flag's listing are of the same row of the frame (label + 2).
C21_BatchMembersKept ==
    Merged =>
        \A ba \in Listed :
            LET batch_flag == batch_flags[ba[1]]
                affected == batch_flag.affected_records[ba[2]]
                r == affected.record_index
                rows == {n \in 1..Len(df) : df[n].idx + 2 = r}
            IN  /\ Cardinality(EntriesOf(red_flagged, r)) = 1
                /\ EntriesOf(green_flagged, r) = {}
                /\ Occurrences(FlagsOf(r), batch_flag) >= 1
                /\ Cardinality(rows) = 1
                /\ \A n \in rows :
                      /\ affected.budget_item_no = df[n].bno
                      /\ affected.chainage
                            = <<_safe_float(df[n].from), _safe_float(df[n].to)>>
                      /\ \A e \in EntriesOf(red_flagged, r) :
                            /\ red_flagged[e].budget_item_no = df[n].bno
                            /\ red_flagged[e].sr_no = df[n].sr
                            /\ red_flagged[e].name_of_work = df[n].name

\* C21 witness: a finished run with a splitting flag over three records and
\* overlap flags, one listed record red by a rule of its own and one promoted
C21_Witness ==
    /\ pc = "done"
    /\ \E b \in 1..Len(batch_flags) :
          batch_flags[b].flag_id = 6 /\ Len(batch_flags[b].affected_records) = 3
    /\ \E b \in 1..Len(batch_flags) : batch_flags[b].flag_id = 4
    /\ \E ba \in Listed :
          ~IsBatchFlag(FlagsOf(batch_flags[ba[1]].affected_records[ba[2]].record_index)[1])
    /\ \E ba \in Listed :
          IsBatchFlag(FlagsOf(batch_flags[ba[1]].affected_records[ba[2]].record_index)[1])

----------------------------------------------------------------------------
(* The overlap test on pairs of intervals *)

\* The values of a chainage cell: a missing one, and the numbers from -1 up
ChainageCells == {Null} \cup {Num(c) : c \in -1..MaxChainage}

\* Two works on SH-56 in one category, with any chainage cells
LoadIntervals ==
    /\ pc = "read"
    /\ \E from1 \in ChainageCells, to1 \in ChainageCells,
          from2 \in ChainageCells, to2 \in ChainageCells :
          df' = RangeFrame(<< Plain(SH56, Cat("A"), from1, to1),
                              Plain(SH56, Cat("A"), from2, to2) >>)
    /\ pc' = "overlap"
    /\ UNCHANGED <<clock, current_date, columns, results_set, total_records,
                   red_flagged, green_flagged, flag_summary, batch_flags, i, bi, ai,
                   call, web>>

NextIntervals ==
    \/ LoadIntervals
    \/ RunOverlap

SpecIntervals == InitDetector /\ [][NextIntervals]_vars

\* The number a chainage cell stands for, 0 for a missing one
Chainage(cell) == IF IsNumber(cell) THEN cell.v ELSE 0

\* The two closed intervals have a point in common (bounds in either order
\* leave an interval without points)
SharePoint(from1, to1, from2, to2) ==
    \E x \in -1..MaxChainage : from1 <= x /\ x <= to1 /\ from2 <= x /\ x <= to2

\* C22: for all interval bounds _chainages_overlap is NOT(to1 < from2 OR
\* to2 < from1), and gives the same with the two intervals exchanged; intervals
\* with to1 = from2 overlap, intervals with a gap between them do not; for
\* bounds in order it is true exactly if the closed intervals share a point.
\* The detector flags the two works exactly if the test is true and neither
\* chainage is (0, 0).
C22_ClosedIntervalOverlap ==
    pc = "overlapped" =>
        LET from1 == Chainage(df[1].from)
            to1 == Chainage(df[1].to)
            from2 == Chainage(df[2].from)
            to2 == Chainage(df[2].to)
            overlap == _chainages_overlap(from1, to1, from2, to2)
        IN  /\ overlap = ~(to1 < from2 \/ to2 < from1)
            /\ overlap = _chainages_overlap(from2, to2, from1, to1)
            /\ from1 <= to1 /\ to1 = from2 /\ from2 <= to2 => overlap
            /\ from1 <= to1 /\ to1 < from2 /\ from2 <= to2 => ~overlap
            /\ from1 <= to1 /\ from2 <= to2
                  => overlap = SharePoint(from1, to1, from2, to2)
            /\ HasChainage(df[1]) /\ HasChainage(df[2])
                  => (Len(batch_flags) = 1) = overlap

\* C22 witness: two works whose intervals only touch, [1, 2] and [2, 3], the
\* later one first in the frame, and the flag listing both
C22_Witness ==
    /\ pc = "overlapped"
    /\ <<df[1].from, df[1].to>> = <<Num(2), Num(3)>>
    /\ <<df[2].from, df[2].to>> = <<Num(1), Num(2)>>
    /\ Len(batch_flags) = 1
    /\ Members(batch_flags[1]) = {2, 3}

\* C23: no overlap flag lists a record whose chainage is (0, 0), be it the
\* first or the second of a pair, and the chainage a flag reports for a record
\* is never (0, 0); so also when the other interval begins at 0 or spans 0.
C23_ZeroChainageSkipped ==
    pc = "overlapped" =>
        /\ \A f \in 1..Len(batch_flags) :
              /\ \A r \in Members(batch_flags[f]) :
                    ~(Chainage(RowAt(r).from) = 0 /\ Chainage(RowAt(r).to) = 0)
              /\ \A a \in 1..Len(batch_flags[f].affected_records) :
                    batch_flags[f].affected_records[a].chainage # <<0, 0>>
        /\ (\E n \in 1..Len(df) : Chainage(df[n].from) = 0 /\ Chainage(df[n].to) = 0)
              => batch_flags = <<>>

\* C23 witness: a work from 0 to 3 followed by a work of the same road with
\* chainage 0 to 0, which the interval test alone would pair, and no flag
C23_Witness ==
    /\ pc = "overlapped"
    /\ <<df[1].from, df[1].to>> = <<Num(0), Num(3)>>
    /\ <<df[2].from, df[2].to>> = <<Num(0), Num(0)>>
    /\ _chainages_overlap(0, 3, 0, 0)
    /\ batch_flags = <<>>

----------------------------------------------------------------------------
(* The splitting detector on rows of several years, categories and roads *)

\* A small contract from 5 to 10 with the cells that decide its group
Keyed(name, cat, date) ==
    RowOf(name, cat, Num(5), Num(10), Num(Lakh(7)), Null, Null, date, Null, Null)

\* Small contracts that differ in the year or day of the work order, in the
\* road category and in the road the name refers to, or lack one of them
MixedRows ==
    { Keyed(SH56, Cat("A"), DateCell(Days(8))),
      Keyed(SH56, Cat("A"), DateCell(Days(11))),
      Keyed(SH56, Cat("A"), DateCell(Days(16))),
      Keyed(SH56, Cat("A"), Null),
      Keyed(SH56, Cat("A"), Text),
      Keyed(SH56, Cat("B"), DateCell(Days(8))),
      Keyed(SH56, NoCat, DateCell(Days(8))),
      Keyed(SH56, NoCat, Null),
      Keyed(SH240, Cat("A"), DateCell(Days(8))),
      Keyed(MDR43viaSH56, Cat("A"), DateCell(Days(8))),
      Keyed(Unnumbered, Cat("A"), DateCell(Days(8))),
      Keyed(SH240, Cat("B"), DateCell(Days(16))) }

\* A continuous stretch of SH-56 and one more row, the rows in any order
StretchAndMixed ==
    UNION {Orders(Stretch(DateCell(Days(8)), GapLimit) \cup {x}) : x \in MixedRows}

LoadMixedFrame ==
    /\ pc = "read"
    /\ \E cells \in SeqsUpTo(MixedRows, MaxBatchRows) \cup StretchAndMixed :
          df' = RangeFrame(cells)
    /\ pc' = "split"
    /\ UNCHANGED <<clock, current_date, columns, results_set, total_records,
                   red_flagged, green_flagged, flag_summary, batch_flags, i, bi, ai,
                   call, web>>

NextMixed ==
    \/ LoadMixedFrame
    \/ RunSplit

SpecMixed == InitDetector /\ [][NextMixed]_vars

\* C24: a splitting flag lists at least three records; they all have a work
\* order date of one calendar year, the year of the flag, one road category
\* and one road key; a record without a work order date or without a road
\* category is in no flag; a group of fewer than three records has no flag.
C24_SplitGroupsHomogeneous ==
    pc = "split_done" =>
        /\ \A f \in 1..Len(batch_flags) :
              /\ Len(batch_flags[f].affected_records) >= 3
              /\ Cardinality(Members(batch_flags[f])) >= 3
              /\ \A r1, r2 \in Members(batch_flags[f]) :
                    /\ RowAt(r1).date.k = "date"
                    /\ YearOf(RowAt(r1).date.v) = YearOf(RowAt(r2).date.v)
                    /\ YearOf(RowAt(r1).date.v) = batch_flags[f].year
                    /\ ~IsNa(RowAt(r1).cat)
                    /\ RowAt(r1).cat = RowAt(r2).cat
                    /\ RoadKey(RowAt(r1)) # NoKey
                    /\ RoadKey(RowAt(r1)) = RoadKey(RowAt(r2))
        /\ \A n \in 1..Len(df) :
              df[n].date.k # "date" \/ IsNa(df[n].cat) => FlagsOn({n}) = {}
        /\ \A n \in 1..Len(df) :
              Grouped(df[n]) /\ Cardinality(GroupAt(n)) < 3 => FlagsOn(GroupAt(n)) = {}

\* C24 witness: three contracts of one group and a fourth that differs from
\* them in the road category only: one flag, of the three
C24_Witness ==
    /\ pc = "split_done"
    /\ Len(df) = 4
    /\ \E n \in 1..4 :
          /\ df[n].cat = Cat("B")
          /\ RoadKey(df[n]) = "SH56"
          /\ YearOf(df[n].date.v) = YearOf(Days(8))
          /\ df[n].date.k = "date"
          /\ FlagsOn({n}) = {}
    /\ Len(batch_flags) = 1
    /\ Cardinality(Members(batch_flags[1])) = 3

----------------------------------------------------------------------------
(* The order and the catalogue of the single-record rules *)

\* The rows of RuleRows with the approval cost and expenditure of the row
SameMoney(row) == {x \in RuleRows : x.aa = row.aa /\ x.exp = row.exp}

\* The rows of RuleRows with the date, time limit and progress of the row
SameSchedule(row) ==
    {x \in RuleRows : x.date = row.date /\ x.tl = row.tl /\ x.prog = row.prog}

\* C25: the flags of an analysed record hold at most one excess expenditure
\* flag and at most one delay flag; if both, the list is the excess flag
\* followed by the delay flag; the excess flag is there or not alike for all
\* records with the same approval cost and expenditure, whatever the delay
\* rule finds, and the delay flag alike for all records with the same date,
\* time limit and progress, whatever the excess rule finds.
C25_CanonicalOrder ==
    \A n \in 1..Len(df) :
        n < i =>
            LET r == df[n].idx + 2
                flags == FlagsOf(r)
            IN  /\ Cardinality(WithId(r, 3)) <= 1
                /\ Cardinality(WithId(r, 5)) <= 1
                /\ WithId(r, 3) # {} /\ WithId(r, 5) # {}
                      => /\ Len(flags) = 2
                         /\ flags[1].flag_id = 3
                         /\ flags[2].flag_id = 5
                /\ \A x \in SameMoney(df[n]) :
                      (_check_excess_expenditure(x) # <<>>) = (WithId(r, 3) # {})
                /\ \A x \in SameSchedule(df[n]) :
                      (_check_delay_in_completion(x) # <<>>) = (WithId(r, 5) # {})
                /\ flags = _check_excess_expenditure(df[n])
                              \o _check_delay_in_completion(df[n])

\* C25 witness: an analysed record over its approval by more than 10 % and
\* overdue, with the two flags, excess expenditure first
C25_Witness ==
    /\ pc = "batch"
    /\ Len(df) = 1
    /\ Len(FlagsOf(2)) = 2
    /\ FlagsOf(2)[1].flag_id = 3
    /\ FlagsOf(2)[1].severity = "HIGH"
    /\ FlagsOf(2)[2].flag_id = 5
    /\ FlagsOf(2)[2].severity = "MEDIUM"

\* The rules without a trigger under the available fields: diversion of funds
\* (1) and wasteful expenditure on survey works (2)
NoTrigger == {1, 2}

\* C26: for every analysed record, each rule without a trigger has a named
\* check, the check of survey wastage returns no flag for the record, and the
\* flags of the record have flag_id 3 or 5 only.
C26_NamedNoOps ==
    \A n \in 1..Len(df) :
        n < i =>
            /\ NoTrigger \subseteq NamedChecks
            /\ _check_survey_wastage(df[n]) = <<>>
            /\ \A m \in 1..Len(FlagsOf(df[n].idx + 2)) :
                  FlagsOf(df[n].idx + 2)[m].flag_id \in {3, 5}

----------------------------------------------------------------------------
(* What a step of the merge changes *)

\* C27: a step of the merge loop for record index r and batch flag b leaves
\* the frame, total_records, the batch flags and the summary as they are.  If
\* r is red, the green entries stay, no red entry is added, the entry of r
\* gets b at the end of its flags and keeps its other fields and flags, and
\* every other red entry stays.  If r is green, every red entry stays, the one
\* new red entry has the record_index, sr_no, budget_item_no and name_of_work
\* of the green entry of r and the flags [b], and the green entries are the
\* former ones without that of r.
C27_MergeStepFrame ==
    [][ pc = "merge" =>
          LET b == batch_flags[bi]
              r == b.affected_records[ai].record_index
          IN  /\ df' = df
              /\ total_records' = total_records
              /\ batch_flags' = batch_flags
              /\ flag_summary' = flag_summary
              /\ r \in RedIndices =>
                    /\ green_flagged' = green_flagged
                    /\ Len(red_flagged') = Len(red_flagged)
                    /\ \A n \in 1..Len(red_flagged) :
                          IF red_flagged[n].record_index = r
                          THEN /\ red_flagged'[n].flags
                                     = red_flagged[n].flags \o <<b>>
                               /\ red_flagged'[n].record_index = r
                               /\ red_flagged'[n].sr_no = red_flagged[n].sr_no
                               /\ red_flagged'[n].budget_item_no
                                     = red_flagged[n].budget_item_no
                               /\ red_flagged'[n].name_of_work
                                     = red_flagged[n].name_of_work
                          ELSE red_flagged'[n] = red_flagged[n]
              /\ r \in GreenIndices =>
                    /\ Len(red_flagged') = Len(red_flagged) + 1
                    /\ \A n \in 1..Len(red_flagged) : red_flagged'[n] = red_flagged[n]
                    /\ \E g \in 1..Len(green_flagged) :
                          LET new == red_flagged'[Len(red_flagged')]
                          IN  /\ green_flagged[g].record_index = r
                              /\ new.record_index = r
                              /\ new.sr_no = green_flagged[g].sr_no
                              /\ new.budget_item_no = green_flagged[g].budget_item_no
                              /\ new.name_of_work = green_flagged[g].name_of_work
                              /\ new.flags = <<b>>
                    /\ green_flagged'
                          = SelectSeq(green_flagged, LAMBDA e : e.record_index # r)
              /\ r \in RedIndices \cup GreenIndices ]_vars

\* C27 witness: inside the merge loop, a record with a flag of its own that got
\* a batch flag appended, a record promoted with one batch flag, and a record
\* still green
C27_Witness ==
    /\ pc = "merge"
    /\ \E n \in 1..Len(red_flagged) :
          /\ Len(red_flagged[n].flags) = 2
          /\ ~IsBatchFlag(red_flagged[n].flags[1])
          /\ IsBatchFlag(red_flagged[n].flags[2])
    /\ \E n \in 1..Len(red_flagged) :
          /\ Len(red_flagged[n].flags) = 1
          /\ IsBatchFlag(red_flagged[n].flags[1])
    /\ Len(green_flagged) = 1

----------------------------------------------------------------------------
(* Red and green during classification and merge *)

\* Whether the merge loop has dealt with affected record a of batch flag b
Handled(b, a) ==
    \/ Merged
    \/ pc = "merge" /\ (b < bi \/ (b = bi /\ a < ai))

\* The number of flags the record index has got so far: those of its own
\* rules, and one for each listing of a batch flag the merge has dealt with
Accumulated(r) ==
    Len(_analyze_single_record(RowAt(r)))
        + Cardinality({ba \in Listed :
              /\ Handled(ba[1], ba[2])
              /\ batch_flags[ba[1]].affected_records[ba[2]].record_index = r})

\* C28: in every state every red entry has at least one flag and no green
\* entry has flags; from the classification of a record on, through the merge
\* and after it, the record is red exactly if it has got one flag or more so
\* far, green exactly if none, and a red entry holds as many flags as the
\* record has got.
C28_RedIffFlagged ==
    /\ \A n \in 1..Len(red_flagged) : Len(red_flagged[n].flags) >= 1
    /\ \A n \in 1..Len(green_flagged) : "flags" \notin DOMAIN green_flagged[n]
    /\ pc \in {"analyze", "batch", "merge", "recalc", "report", "done"} =>
          \A n \in 1..Len(df) :
              n < i =>
                  LET r == df[n].idx + 2
                  IN  /\ (r \in RedIndices) = (Accumulated(r) >= 1)
                      /\ (r \in GreenIndices) = (Accumulated(r) = 0)
                      /\ Len(FlagsOf(r)) = Accumulated(r)

\* C28 witness: the merge loop between two batch flags: one record red by the
\* first batch flag alone, one record still green that a later flag lists
C28_Witness ==
    /\ pc = "merge"
    /\ bi = 2
    /\ \E n \in 1..Len(red_flagged) :
          /\ red_flagged[n].flags = <<batch_flags[1]>>
          /\ Accumulated(red_flagged[n].record_index) = 1
    /\ \E n \in 1..Len(green_flagged) :
          /\ Implicating(batch_flags, green_flagged[n].record_index) # {}
          /\ Accumulated(green_flagged[n].record_index) = 0

----------------------------------------------------------------------------
(* run returns *)

\* The batch step as run takes it: from the batch analysis on to the merge or,
\* with no batch flag, to the recalculation.  Within the steps of Next, a step
\* of BatchDone that changes pc is a step of AnalyzeBatch, and the two are
\* enabled in the same states.
BatchDone ==
    /\ pc = "batch"
    /\ BatchColumns \subseteq columns
    /\ pc' \in {"merge", "recalc"}

\* Every step of run but the batch analysis that returns
OtherStep == (pc # "batch" /\ Next) \/ BatchFails

\* run is one sequential call: a statement that can execute does execute, so
\* no step that stays enabled is put off for ever
SpecFair == Init /\ [][Next]_vars /\ WF_vars(OtherStep) /\ WF_pc(BatchDone)

\* The positions run can be at: the steps of the try block and the two returns
Positions == {"read", "analyze", "batch", "merge", "recalc", "report", "done", "failed"}

\* C29: every call of run comes to a return, and is nowhere but at a step of
\* run or at one of its two returns; it has returned a dictionary exactly
\* when it is at a return.  The dictionary has success = True, with the keys
\* results, output_files and data_quality, only if the sheet was read, the
\* analysis returned, the batch detectors found their columns, the merge
\* listed every record of a batch flag as red, the summary is that of the red
\* entries, and every format asked for is known and has its file.  Otherwise
\* it has success = False and an error text: the unknown format or the
\* missing column among others.
C29_RunAlwaysReturns ==
    /\ <>(pc \in {"done", "failed"})
    /\ [](pc \in Positions)
    /\ []((pc \in {"done", "failed"}) = (returned # NotReturned))
    /\ [](returned # NotReturned =>
            /\ returned.success = (pc = "done")
            /\ returned.success =>
                  /\ returned.keys = {"success", "results", "output_files", "data_quality"}
                  /\ results_set
                  /\ BatchColumns \subseteq columns
                  /\ batch_flags = analyze_batch_flags(df)
                  /\ \A ba \in Listed :
                        batch_flags[ba[1]].affected_records[ba[2]].record_index
                            \in RedIndices
                  /\ Len(red_flagged) + Len(green_flagged) = total_records
                  /\ flag_summary = _calculate_summary(red_flagged)
                  /\ \A n \in 1..Len(output_formats) : output_formats[n] \in Supported
                  /\ returned.output_files
                        = {output_formats[n] : n \in 1..Len(output_formats)}
            /\ ~returned.success =>
                  /\ returned.keys = {"success", "error"}
                  /\ returned.error # ""
            /\ (\E n \in 1..Len(output_formats) : output_formats[n] = "csv")
                  => ~returned.success
            /\ results_set /\ "cat" \notin columns
                  => ~returned.success /\ returned.error = "'Road Category'")

\* C29 witness: run has returned success = False for a format it does not
\* know, after the analysis and the merge of a sheet with red records
C29_Witness ==
    /\ pc = "failed"
    /\ returned.error = "Unsupported output format: csv"
    /\ ~returned.success
    /\ results_set
    /\ batch_flags # <<>>
    /\ red_flagged # <<>>

-----------------------------------------------------------------------------
(* Upload requests handled at the same time *)

\* The wall clock moves on to the next second
NextSecond ==
    /\ second < MaxSeconds
    /\ second' = second + 1
    /\ UNCHANGED <<files, req, pipeline, call>>

\* A step of the request of client c: its fields and the files it writes
Handle(c, fields, written) ==
    /\ req' = [req EXCEPT ![c] = fields]
    /\ files' = written
    /\ UNCHANGED <<second, pipeline, call>>

\* upload_file answers 400 to a name that is not that of a sheet
Rejected(c) ==
    /\ req[c].pc = "idle"
    /\ \E filename \in FileNames :
          /\ ~allowed_file(filename)
          /\ Handle(c, [req[c] EXCEPT !.pc = "responded", !.status = 400], files)

\* upload_file saves the uploaded sheet under the time stamp and the secured name
SaveUpload(c) ==
    /\ req[c].pc = "idle"
    /\ \E filename \in FileNames :
          /\ allowed_file(filename)
          /\ LET filepath == Path("uploads", second, secure_filename(filename))
             IN  Handle(c, [req[c] EXCEPT !.pc = "saved", !.filepath = filepath],
                        Written(files, filepath, Sheet(c)))

\* The request's own pipeline reads the sheet at filepath; run returns
\* success = False if there is no such file
ReadUpload(c) ==
    /\ req[c].pc = "saved"
    /\ IF Holds(files, req[c].filepath) = Absent
          THEN Handle(c, [req[c] EXCEPT !.pc = "ran", !.success = FALSE], files)
          ELSE Handle(c, [req[c] EXCEPT !.pc = "read",
                                        !.sheet = Holds(files, req[c].filepath)], files)

\* The pipeline writes the Excel report of its analysis under the time stamp
\* of the moment, and run returns its path
WriteReport(c) ==
    /\ req[c].pc = "read"
    /\ LET output_file == Path("reports", second, ReportName)
       IN  Handle(c, [req[c] EXCEPT !.pc = "ran", !.success = TRUE,
                                    !.report = output_file],
                  Written(files, output_file, ReportOn(req[c].sheet)))

\* upload_file removes the uploaded file, whatever it holds by now
RemoveUpload(c) ==
    /\ req[c].pc = "ran"
    /\ Handle(c, [req[c] EXCEPT !.pc = "cleaned"],
              Removed(files, req[c].filepath))

\* upload_file answers 500 when run returned success = False
AnalysisFailed(c) ==
    /\ req[c].pc = "cleaned"
    /\ ~req[c].success
    /\ Handle(c, [req[c] EXCEPT !.pc = "responded", !.status = 500], files)

\* upload_file copies the report into the output folder under its base name;
\* shutil.copy2 raises if the report is gone, and the answer is 500
CopyReport(c) ==
    /\ req[c].pc = "cleaned"
    /\ req[c].success
    /\ LET output_path == [req[c].report EXCEPT !.dir = "outputs"]
       IN  IF Holds(files, req[c].report) = Absent
             THEN Handle(c, [req[c] EXCEPT !.pc = "responded", !.status = 500], files)
             ELSE Handle(c, [req[c] EXCEPT !.pc = "copied", !.output = output_path],
                         Written(files, output_path, Holds(files, req[c].report)))

\* upload_file removes the report from the report folder and answers with
\* the download link
Respond(c) ==
    /\ req[c].pc = "copied"
    /\ Handle(c, [req[c] EXCEPT !.pc = "responded", !.status = 200],
              Removed(files, req[c].report))

\* download_file sends what the output folder holds under the link
Download(c) ==
    /\ req[c].pc = "responded"
    /\ req[c].status = 200
    /\ Handle(c, [req[c] EXCEPT !.pc = "downloaded", !.served = Holds(files, req[c].output)],
              files)

NextWeb ==
    \/ NextSecond
    \/ \E c \in Clients :
          \/ Rejected(c)
          \/ SaveUpload(c)
          \/ ReadUpload(c)
          \/ WriteReport(c)
          \/ RemoveUpload(c)
          \/ AnalysisFailed(c)
          \/ CopyReport(c)
          \/ Respond(c)
          \/ Download(c)

SpecWeb == Init /\ [][NextWeb]_vars

\* The requests other than that of client c
Others(c) == Clients \ {c}

\* C30: in every interleaving of two upload requests, the path of the
\* uploaded file and the path of the report of one request differ from those
\* of the other; the uploaded sheet is the client's own until the request has
\* read it, the report is that of the client's own sheet until the request
\* has copied it, and the download the answer links to is the report of the
\* client's own sheet.
C30_RequestsIsolated ==
    \A c \in Clients :
        /\ \A d \in Others(c) :
              /\ req[c].filepath # NoPath => req[c].filepath # req[d].filepath
              /\ req[c].report # NoPath => req[c].report # req[d].report
        /\ req[c].pc = "saved" => Holds(files, req[c].filepath) = Sheet(c)
        /\ req[c].pc \in {"ran", "cleaned"} /\ req[c].success
              => Holds(files, req[c].report) = ReportOn(Sheet(c))
        /\ req[c].pc = "downloaded" => req[c].served = ReportOn(Sheet(c))

====
